---- MODULE Spec2Model ----
(***************************************************************************)
(* Model of the SheetPilot backend: the file-reference extractor and its   *)
(* companion remover (services/file_reference_service.py), the preview     *)
(* cache (services/preview_cache.py) and the garbage collection performed  *)
(* by the flow / file routes (api/routes/flows.py, api/routes/files.py,    *)
(* services/file_service.py).                                              *)
(***************************************************************************)
EXTENDS Integers, Sequences, FiniteSets, TLC

VARIABLES
    \* --- reference extractor / remover, called on one document ---
    flow_data,      \* the document object the caller holds
    file_id,        \* the file id argument of remove_file_id_from_flow_data
    ref_pc,         \* "input" | "extracted" | "removed" | "reextracted" | "raised"
    file_ids,       \* last result of extract_file_ids_from_flow_data
    updated,        \* document returned by remove_file_id_from_flow_data
    changed,        \* flag returned by remove_file_id_from_flow_data
    \* --- preview cache ---
    entries,        \* PreviewCache._entries: sequence of [key, ts, value], oldest first
    now,            \* the clock read by time.time()
    cache_op,       \* the last get / set call and its result
    last_set,       \* history: the most recent set call [key, value, ts]
    set_ts,         \* history: per key, the time of its last set (or NoTime)
    use_order,      \* history: keys by last use (set or get hit), oldest first
    \* --- persistent records and storage ---
    flows,          \* flows table: flow id -> [user_id, flow_data] or NoFlow
    files,          \* files table: file id -> [user_id, batch_id] or NoFile
    batches,        \* file_batches table: batch id -> [user_id, flow_id] or NoBatch
    disk,           \* ids of the files whose bytes are in the upload directory
    next_id,        \* the id sequences of the three tables
    gc_op,          \* the route that ran last
    gc_removed,     \* history: ids of the file records the last route removed
    \* --- the preview cache shared by the event loop and a pool thread ---
    cc_entries,     \* PreviewCache._entries of the process-wide instance
    cc_now,         \* the clock read by time.time()
    cc_pc,          \* per thread: the statement of get / set it is about to run
    cc_call,        \* per thread: the call in progress [op, key, value, t, ts]
    cc_iter,        \* per thread: state of the iterator of _purge_expired
    cc_raised,      \* per thread: the exception its last call ended with
    \* --- the preview fingerprint of two requests ---
    fp_req,         \* the two requests [user_id, db_files, flow_data, preview_target]
    fp_key,         \* their preview_cache_key, once computed
    \* --- one call of TransformService.execute_flow ---
    eng_files,      \* the ids of file_paths_by_id, in enumeration order
    eng_nodes,      \* flow_data["nodes"]
    eng_pc,         \* index of the node the loop is about to run
    eng_st,         \* table_map, DataFrame objects, last_table_key and history
    eng_result,     \* the returned tuple, or NotReturned
    \* --- the orphan sweep and one user delete, side by side ---
    sweep,          \* the job: position, loop variables, session and history
    req,            \* the DELETE /files/{id} or POST /flows request: position and answer
    \* --- one call of create_zip_archive ---
    zip_in,         \* the arguments [files_payload, batch]
    zip_out,        \* the namelist of the archive, or the exception raised
    \* --- one delete request while the storage fails ---
    fault_op        \* the request, the failures it met and the records before it

ref_vars == <<flow_data, file_id, ref_pc, file_ids, updated, changed>>
cache_vars == <<entries, now, cache_op, last_set, set_ts, use_order>>
gc_vars == <<flows, files, batches, disk, next_id, gc_op, gc_removed>>

conc_vars == <<cc_entries, cc_now, cc_pc, cc_call, cc_iter, cc_raised>>

fp_vars == <<fp_req, fp_key>>

eng_vars == <<eng_files, eng_nodes, eng_pc, eng_st, eng_result>>

job_vars == <<sweep, req>>

zip_vars == <<zip_in, zip_out>>

fault_vars == <<fault_op>>

non_ref_vars == <<cache_vars, gc_vars, conc_vars, fp_vars, eng_vars, job_vars, zip_vars, fault_vars>>
non_cache_vars == <<ref_vars, gc_vars, conc_vars, fp_vars, eng_vars, job_vars, zip_vars, fault_vars>>
non_gc_vars == <<ref_vars, cache_vars, conc_vars, fp_vars, eng_vars, job_vars, zip_vars, fault_vars>>
non_conc_vars == <<ref_vars, cache_vars, gc_vars, fp_vars, eng_vars, job_vars, zip_vars, fault_vars>>
non_fp_vars == <<ref_vars, cache_vars, gc_vars, conc_vars, eng_vars, job_vars, zip_vars, fault_vars>>
non_eng_vars == <<ref_vars, cache_vars, gc_vars, conc_vars, fp_vars, job_vars, zip_vars, fault_vars>>
other_vars == <<ref_vars, cache_vars, conc_vars, fp_vars, eng_vars, zip_vars, fault_vars>>
non_zip_vars == <<ref_vars, cache_vars, gc_vars, conc_vars, fp_vars, eng_vars, job_vars, fault_vars>>
non_fault_vars == <<ref_vars, cache_vars, conc_vars, fp_vars, eng_vars, job_vars, zip_vars>>

----------------------------------------------------------------------------
(* Bounds *)

MaxFileId == 2      \* file ids are 1..MaxFileId
MaxListLen == 2     \* longest fileIds list of a generated document

max_entries == 2    \* PreviewCache(max_entries): capacity of the modelled cache
ttl_seconds == 2    \* PreviewCache(ttl_seconds): time-to-live of the modelled cache
MaxKeys == max_entries + 1      \* cache keys are 1..MaxKeys: enough to overflow
MaxTime == ttl_seconds + 1      \* the clock runs from 0 to MaxTime: enough to expire

MaxFlows == 2       \* flow ids are 1..MaxFlows

FileIds == 1..MaxFileId
FlowIdSet == 1..MaxFlows
GcFileIds == {1, 2}     \* ids of the files the routes are exercised on
BatchIds == {1}         \* ids of the batches the routes are exercised on
Users == {1, 2}         \* user 1 uploads and builds flows, user 2 only builds flows
Uploaders == {1}
Keys == 1..MaxKeys
Values == {"a", "b"}

----------------------------------------------------------------------------
(* JSON values as Python sees them: every value carries its type tag. *)

PyNone == [t |-> "none"]
PyInt(n) == [t |-> "int", v |-> n]
PyStr(s) == [t |-> "str", v |-> s]
PyList(s) == [t |-> "list", v |-> s]
PyDict(f) == [t |-> "dict", v |-> f]

EmptyDict == PyDict([k \in {} |-> PyNone])
EmptyList == PyList(<<>>)

IsDict(x) == x.t = "dict"
IsList(x) == x.t = "list"
IsInt(x) == x.t = "int"

\* dict.get(key, default)
Get(d, key, default) == IF key \in DOMAIN d.v THEN d.v[key] ELSE default

\* d[key] = value
SetItem(d, key, value) ==
    PyDict([k \in (DOMAIN d.v) \cup {key} |-> IF k = key THEN value ELSE d.v[k]])

\* a dict from a set of <<key, value>> pairs with distinct keys
MkDict(pairs) ==
    PyDict([k \in {p[1] : p \in pairs} |-> (CHOOSE p \in pairs : p[1] = k)[2]])

\* Python ==  between a JSON value and the int file_id
EqInt(x, n) == IsInt(x) /\ x.v = n

----------------------------------------------------------------------------
(* FileReferenceService.extract_file_ids_from_flow_data *)

\* the ints of a fileIds list
ExtractFromFileIdsList(file_ids_list) ==
    IF IsList(file_ids_list)
    THEN {file_ids_list.v[i].v : i \in {j \in DOMAIN file_ids_list.v : IsInt(file_ids_list.v[j])}}
    ELSE {}

\* the fileId of a target / lookupTarget dict
ExtractFromTarget(target) ==
    IF IsDict(target) /\ IsInt(Get(target, "fileId", PyNone))
    THEN {Get(target, "fileId", PyNone).v}
    ELSE {}

ExtractFromNode(node) ==
    IF ~IsDict(node) THEN {}
    ELSE LET data == Get(node, "data", EmptyDict) IN
         IF ~IsDict(data) THEN {}
         ELSE ExtractFromFileIdsList(Get(data, "fileIds", EmptyList))
              \cup ExtractFromTarget(Get(data, "target", EmptyDict))
              \cup ExtractFromTarget(Get(data, "lookupTarget", EmptyDict))

ExtractFileIds(fd) ==
    IF ~IsDict(fd) THEN {}
    ELSE LET nodes == Get(fd, "nodes", EmptyList) IN
         IF ~IsList(nodes) THEN {}
         ELSE UNION {ExtractFromNode(nodes.v[i]) : i \in DOMAIN nodes.v}

----------------------------------------------------------------------------
(* FileReferenceService.remove_file_id_from_flow_data *)

\* target["fileId"] = None; target["sheetName"] = None
NullTarget(target) == SetItem(SetItem(target, "fileId", PyNone), "sheetName", PyNone)

\* isinstance(target, dict) and target.get("fileId") == file_id
TargetMatches(target, fid) == IsDict(target) /\ EqInt(Get(target, "fileId", PyNone), fid)

\* the fileIds step: [doc |-> data after the step, changed |-> flag]
RemoveFromFileIds(data, fid) ==
    LET file_ids_list == Get(data, "fileIds", EmptyList)
        Keep(value) == ~EqInt(value, fid)
    IN  IF IsList(file_ids_list) /\ \E i \in DOMAIN file_ids_list.v : EqInt(file_ids_list.v[i], fid)
        THEN [doc |-> SetItem(data, "fileIds", PyList(SelectSeq(file_ids_list.v, Keep))),
              changed |-> TRUE]
        ELSE [doc |-> data, changed |-> FALSE]

\* the target step
RemoveFromTarget(data, fid) ==
    LET target == Get(data, "target", PyNone)
    IN  IF TargetMatches(target, fid)
        THEN [doc |-> SetItem(data, "target", NullTarget(target)), changed |-> TRUE]
        ELSE [doc |-> data, changed |-> FALSE]

\* variant: the lookupTarget step is forgotten
RemoveFromLookupTarget_Skipped(data, fid) == [doc |-> data, changed |-> FALSE]

\* the lookupTarget step
RemoveFromLookupTarget(data, fid) ==
    LET lookup_target == Get(data, "lookupTarget", PyNone)
    IN  IF TargetMatches(lookup_target, fid)
        THEN [doc |-> SetItem(data, "lookupTarget", NullTarget(lookup_target)), changed |-> TRUE]
        ELSE [doc |-> data, changed |-> FALSE]

\* one sheet of output.sheets
RemoveFromSheet(sheet, fid) ==
    IF ~IsDict(sheet) THEN sheet
    ELSE LET source == Get(sheet, "source", PyNone)
         IN  IF TargetMatches(source, fid)
             THEN SetItem(sheet, "source", NullTarget(source))
             ELSE sheet

\* isinstance(sheet, dict) and its source dict points at file_id
SheetMatches(sheet, fid) == IsDict(sheet) /\ TargetMatches(Get(sheet, "source", PyNone), fid)

\* the output.sheets[*].source step
RemoveFromOutput(data, fid) ==
    LET output == Get(data, "output", PyNone)
    IN  IF ~IsDict(output) THEN [doc |-> data, changed |-> FALSE]
        ELSE LET output_sheets == Get(output, "sheets", EmptyList)
             IN  IF ~IsList(output_sheets) THEN [doc |-> data, changed |-> FALSE]
                 ELSE IF \E i \in DOMAIN output_sheets.v : SheetMatches(output_sheets.v[i], fid)
                      THEN [doc |-> SetItem(data, "output",
                                        SetItem(output, "sheets",
                                            PyList([i \in DOMAIN output_sheets.v |->
                                                RemoveFromSheet(output_sheets.v[i], fid)]))),
                            changed |-> TRUE]
                      ELSE [doc |-> data, changed |-> FALSE]

\* the loop body for one node: [doc |-> node after, changed |-> flag]
RemoveFromNode(node, fid) ==
    IF ~IsDict(node) THEN [doc |-> node, changed |-> FALSE]
    ELSE LET data == Get(node, "data", EmptyDict) IN
         IF ~IsDict(data) THEN [doc |-> node, changed |-> FALSE]
         ELSE LET s1 == RemoveFromFileIds(data, fid)
                  s2 == RemoveFromTarget(s1.doc, fid)
                  s3 == RemoveFromLookupTarget(s2.doc, fid)
                  s4 == RemoveFromOutput(s3.doc, fid)
                  ch == s1.changed \/ s2.changed \/ s3.changed \/ s4.changed
              IN  [doc |-> IF ch THEN SetItem(node, "data", s4.doc) ELSE node,
                   changed |-> ch]

\* returns [doc |-> updated document, changed |-> flag]
RemoveFileId(fd, fid) ==
    IF ~IsDict(fd) THEN [doc |-> fd, changed |-> FALSE]
    ELSE LET nodes == Get(fd, "nodes", EmptyList) IN
         IF ~IsList(nodes) THEN [doc |-> fd, changed |-> FALSE]
         ELSE LET per == [i \in DOMAIN nodes.v |-> RemoveFromNode(nodes.v[i], fid)]
                  ch == \E i \in DOMAIN nodes.v : per[i].changed
              IN  [doc |-> IF ch
                           THEN SetItem(fd, "nodes", PyList([i \in DOMAIN nodes.v |-> per[i].doc]))
                           ELSE fd,
                   changed |-> ch]

\* variant: the edit is made on the caller's object, without the deep copy
CallerDocAfterRemove_NoCopy(fd, fid) == RemoveFileId(fd, fid).doc

\* the caller's document object after the call: the edit is made on
\* copy.deepcopy(flow_data), so the object passed in keeps its content
CallerDocAfterRemove(fd, fid) == fd

----------------------------------------------------------------------------
(* Exceptions of the two functions.  x.get(...) raises AttributeError unless
   x is a dict; `for v in x` and `file_id in x` raise TypeError unless x is
   iterable.  Each such statement is listed behind the isinstance test the
   code puts in front of it. *)

HasGet(x) == IsDict(x)
Iterable(x) == x.t \in {"list", "dict", "str"}

\* variant: the loop body of the extractor without its isinstance tests
ExtractNodeRaises_Unchecked(node) ==
    \/ ~HasGet(node)
    \/ LET data == Get(node, "data", EmptyDict)
       IN  \/ ~HasGet(data)
           \/ ~Iterable(Get(data, "fileIds", EmptyList))
           \/ ~HasGet(Get(data, "target", EmptyDict))
           \/ ~HasGet(Get(data, "lookupTarget", EmptyDict))

\* the loop body of the extractor raises
ExtractNodeRaises(node) ==
    IF ~IsDict(node) THEN FALSE
    ELSE \/ ~HasGet(node)
         \/ LET data == Get(node, "data", EmptyDict)
            IN  IF ~IsDict(data) THEN FALSE
                ELSE \/ ~HasGet(data)
                     \/ LET file_ids_list == Get(data, "fileIds", EmptyList)
                        IN  IsList(file_ids_list) /\ ~Iterable(file_ids_list)
                     \/ LET target == Get(data, "target", EmptyDict)
                        IN  IsDict(target) /\ ~HasGet(target)
                     \/ LET lookup_target == Get(data, "lookupTarget", EmptyDict)
                        IN  IsDict(lookup_target) /\ ~HasGet(lookup_target)

\* extract_file_ids_from_flow_data(fd) raises
ExtractRaises(fd) ==
    IF ~IsDict(fd) THEN FALSE
    ELSE \/ ~HasGet(fd)
         \/ LET nodes == Get(fd, "nodes", EmptyList)
            IN  IF ~IsList(nodes) THEN FALSE
                ELSE ~Iterable(nodes) \/ \E i \in DOMAIN nodes.v : ExtractNodeRaises(nodes.v[i])

\* the output.sheets step of the remover raises
RemoveOutputRaises(data) ==
    LET output == Get(data, "output", PyNone)
    IN  IF ~IsDict(output) THEN FALSE
        ELSE \/ ~HasGet(output)
             \/ LET output_sheets == Get(output, "sheets", EmptyList)
                IN  IF ~IsList(output_sheets) THEN FALSE
                    ELSE \/ ~Iterable(output_sheets)
                         \/ \E i \in DOMAIN output_sheets.v :
                               LET sheet == output_sheets.v[i]
                               IN  IF ~IsDict(sheet) THEN FALSE
                                   ELSE \/ ~HasGet(sheet)
                                        \/ LET source == Get(sheet, "source", PyNone)
                                           IN  IsDict(source) /\ ~HasGet(source)

\* the loop body of the remover raises
RemoveNodeRaises(node) ==
    IF ~IsDict(node) THEN FALSE
    ELSE \/ ~HasGet(node)
         \/ LET data == Get(node, "data", EmptyDict)
            IN  IF ~IsDict(data) THEN FALSE
                ELSE \/ ~HasGet(data)
                     \/ LET file_ids_list == Get(data, "fileIds", EmptyList)
                        IN  IsList(file_ids_list) /\ ~Iterable(file_ids_list)
                     \/ LET target == Get(data, "target", PyNone)
                        IN  IsDict(target) /\ ~HasGet(target)
                     \/ LET lookup_target == Get(data, "lookupTarget", PyNone)
                        IN  IsDict(lookup_target) /\ ~HasGet(lookup_target)
                     \/ RemoveOutputRaises(data)

\* remove_file_id_from_flow_data(fd, file_id) raises
RemoveRaises(fd) ==
    IF ~IsDict(fd) THEN FALSE
    ELSE \/ ~HasGet(fd)
         \/ LET nodes == Get(fd, "nodes", EmptyList)
            IN  IF ~IsList(nodes) THEN FALSE
                ELSE ~Iterable(nodes) \/ \E i \in DOMAIN nodes.v : RemoveNodeRaises(nodes.v[i])

----------------------------------------------------------------------------
(* Documents the extractor and the remover are called on *)

\* values found where a file id is expected
IdVals == {PyInt(i) : i \in FileIds} \cup {PyNone, PyStr("1")}

\* sequences over S of length 0..n
RECURSIVE SeqsUpTo(_, _)
SeqsUpTo(S, n) ==
    IF n = 0 THEN {<<>>}
    ELSE LET shorter == SeqsUpTo(S, n - 1)
         IN  shorter \cup {Append(q, x) : q \in {r \in shorter : Len(r) = n - 1}, x \in S}

\* each option is the set of <<key, value>> pairs it adds to the data dict
FileIdsOpts ==
    {{}, {<<"fileIds", PyStr("1")>>}}
    \cup {{<<"fileIds", PyList(q)>>} :
            q \in SeqsUpTo({PyInt(i) : i \in FileIds} \cup {PyStr("1")}, MaxListLen)}

TargetOpts ==
    {{}, {<<"target", PyNone>>}, {<<"target", EmptyDict>>}}
    \cup {{<<"target", PyDict([fileId |-> x, sheetName |-> PyStr("S")])>>} : x \in IdVals}

LookupTargetOpts ==
    {{}} \cup {{<<"lookupTarget", PyDict([fileId |-> x, sheetName |-> PyStr("S")])>>} :
                  x \in {PyInt(i) : i \in FileIds} \cup {PyNone}}

MappingTargetsOpts ==
    {{}, {<<"mappingTargets", PyList(<<PyStr("x")>>)>>}}
    \cup {{<<"mappingTargets", PyList(<<PyDict([fileId |-> PyInt(i), sheetName |-> PyStr("S")])>>)>>} :
            i \in FileIds}

OutputOpts ==
    {{}, {<<"output", PyStr("x")>>}}
    \cup {{<<"output", PyDict([sheets |-> PyList(<<PyDict([sheetName |-> PyStr("O"),
                source |-> PyDict([fileId |-> PyInt(i), sheetName |-> PyStr("S")])])>>)])>>} :
            i \in FileIds}

\* at most one of the three less common sites per generated node
ExtraOpts == LookupTargetOpts \cup MappingTargetsOpts \cup OutputOpts

DataDicts ==
    {MkDict(a \cup b \cup c) : a \in FileIdsOpts, b \in TargetOpts, c \in ExtraOpts}
    \cup {MkDict(c \cup d \cup e) :
            c \in LookupTargetOpts, d \in MappingTargetsOpts, e \in OutputOpts}

NodeOf(data) == PyDict([id |-> PyStr("n"), data |-> data])

\* a node of every shape: not a dict, no data, data of the wrong type, data dict
RichNodes ==
    {PyStr("x"), PyDict([id |-> PyStr("n")]), NodeOf(PyNone)} \cup {NodeOf(d) : d \in DataDicts}

\* a second node, so that one id can sit in two nodes
SecondNodes ==
    {NodeOf(PyDict([fileIds |-> PyList(<<PyInt(1)>>)])),
     NodeOf(PyDict([target |-> PyDict([fileId |-> PyInt(MaxFileId), sheetName |-> PyStr("S")])]))}

DocOf(nodes) == PyDict([nodes |-> PyList(nodes), edges |-> EmptyList])

RefDocs ==
    {PyNone, PyDict([edges |-> EmptyList]), PyDict([nodes |-> PyStr("x")]), DocOf(<<>>)}
    \cup {DocOf(<<n>>) : n \in RichNodes}
    \cup {DocOf(<<n, m>>) : n \in RichNodes, m \in SecondNodes}

----------------------------------------------------------------------------
(* The two service calls, made on one document *)

RefStart ==
    /\ file_id \in FileIds
    /\ ref_pc = "input"
    /\ file_ids = {}
    /\ updated = PyNone
    /\ changed = FALSE

RefInit == flow_data \in RefDocs /\ RefStart

\* the extractor variables when another component is under study
RefIdle == flow_data = PyNone /\ file_id = 1 /\ ref_pc = "idle"
           /\ file_ids = {} /\ updated = PyNone /\ changed = FALSE

\* ids = extract_file_ids_from_flow_data(flow_data)
CallExtract ==
    /\ ref_pc = "input"
    /\ file_ids' = IF ExtractRaises(flow_data) THEN file_ids ELSE ExtractFileIds(flow_data)
    /\ ref_pc' = IF ExtractRaises(flow_data) THEN "raised" ELSE "extracted"
    /\ UNCHANGED <<flow_data, file_id, updated, changed>>
    /\ UNCHANGED non_ref_vars

\* updated, changed = remove_file_id_from_flow_data(flow_data, file_id)
CallRemove ==
    /\ ref_pc = "input"
    /\ updated' = IF RemoveRaises(flow_data) THEN updated
                  ELSE RemoveFileId(flow_data, file_id).doc
    /\ changed' = IF RemoveRaises(flow_data) THEN changed
                  ELSE RemoveFileId(flow_data, file_id).changed
    /\ flow_data' = CallerDocAfterRemove(flow_data, file_id)
    /\ ref_pc' = IF RemoveRaises(flow_data) THEN "raised" ELSE "removed"
    /\ UNCHANGED <<file_id, file_ids>>
    /\ UNCHANGED non_ref_vars

\* ids = extract_file_ids_from_flow_data(updated)
CallExtractUpdated ==
    /\ ref_pc = "removed"
    /\ file_ids' = IF ExtractRaises(updated) THEN file_ids ELSE ExtractFileIds(updated)
    /\ ref_pc' = IF ExtractRaises(updated) THEN "raised" ELSE "reextracted"
    /\ UNCHANGED <<flow_data, file_id, updated, changed>>
    /\ UNCHANGED non_ref_vars

RefNext == CallExtract \/ CallRemove \/ CallExtractUpdated

----------------------------------------------------------------------------
(* PreviewCache *)

NoTime == -1
Absent == "absent"      \* get() returning None

\* now - ts > self._ttl_seconds
Expired(ts, t) == t - ts > ttl_seconds

\* _purge_expired: drop every entry older than the TTL
PurgeExpired(es, t) ==
    LET Fresh(e) == ~Expired(e.ts, t) IN SelectSeq(es, Fresh)

HasKey(es, k) == \E i \in DOMAIN es : es[i].key = k
EntryOf(es, k) == es[CHOOSE i \in DOMAIN es : es[i].key = k]

\* self._entries.pop(key)
PopKey(es, k) ==
    LET Other(e) == e.key # k IN SelectSeq(es, Other)

\* variant: a hit stores the current time, refreshing the entry's age
HitTs_Refreshed(ts, t) == t

\* the timestamp a get hit stores back with the value
HitTs(ts, t) == ts

\* variant: a hit leaves the entry where it is
GetEntries_NoMove(es, k, t) == PurgeExpired(es, t)

\* get: the entries afterwards (a hit moves the entry to the end)
GetEntries(es, k, t) ==
    LET purged == PurgeExpired(es, t)
    IN  IF ~HasKey(purged, k) THEN purged
        ELSE Append(PopKey(purged, k),
                    [key |-> k, ts |-> HitTs(EntryOf(purged, k).ts, t),
                     value |-> EntryOf(purged, k).value])

\* get: the returned value
GetResult(es, k, t) ==
    LET purged == PurgeExpired(es, t)
    IN  IF ~HasKey(purged, k) THEN Absent ELSE EntryOf(purged, k).value

\* history: the get hits the entry at the oldest end of a full cache
HitOnLru(es, k, t) ==
    LET purged == PurgeExpired(es, t)
    IN  Len(purged) = max_entries /\ purged # <<>> /\ purged[1].key = k

\* variant: popitem(last=True), the newest entry goes first
RECURSIVE EvictOldest_Newest(_)
EvictOldest_Newest(es) ==
    IF Len(es) > max_entries THEN EvictOldest_Newest(SubSeq(es, 1, Len(es) - 1)) ELSE es

\* while len(self._entries) > self._max_entries: popitem(last=False)
RECURSIVE EvictOldest(_)
EvictOldest(es) ==
    IF Len(es) > max_entries THEN EvictOldest(Tail(es)) ELSE es

\* variant: the key is not popped first, so an existing key keeps its place
SetEntries_InPlace(es, k, v, t, t2) ==
    LET purged == PurgeExpired(es, t)
    IN  IF HasKey(purged, k)
        THEN [i \in DOMAIN purged |->
                 IF purged[i].key = k THEN [key |-> k, ts |-> t2, value |-> v] ELSE purged[i]]
        ELSE EvictOldest(Append(purged, [key |-> k, ts |-> t2, value |-> v]))

\* variant: the eviction loop is missing
SetEntries_NoEvict(es, k, v, t, t2) ==
    Append(PopKey(PurgeExpired(es, t), k), [key |-> k, ts |-> t2, value |-> v])

\* set: purge at time t, store with the time t2 read afterwards, evict
SetEntries(es, k, v, t, t2) ==
    EvictOldest(Append(PopKey(PurgeExpired(es, t), k), [key |-> k, ts |-> t2, value |-> v]))

KeysOf(es) == {es[i].key : i \in DOMAIN es}

\* move k to the most recent end of the use order
Touch(order, k) ==
    LET Other(j) == j # k IN Append(SelectSeq(order, Other), k)

CacheInit ==
    /\ entries = <<>>
    /\ now = 0
    /\ cache_op = [op |-> "none", key |-> 0, result |-> Absent, lru_hit |-> FALSE]
    /\ last_set = [key |-> 0, value |-> Absent, ts |-> NoTime]
    /\ set_ts = [k \in Keys |-> NoTime]
    /\ use_order = <<>>

\* the clock advances between calls
Tick ==
    /\ now < MaxTime
    /\ now' = now + 1
    /\ UNCHANGED <<entries, cache_op, last_set, set_ts, use_order>>
    /\ UNCHANGED non_cache_vars

\* preview_cache.get(key)
CacheGet(k) ==
    /\ entries' = GetEntries(entries, k, now)
    /\ cache_op' = [op |-> "get", key |-> k, result |-> GetResult(entries, k, now),
                     lru_hit |-> HitOnLru(entries, k, now)]
    /\ use_order' = IF GetResult(entries, k, now) # Absent THEN Touch(use_order, k)
                    ELSE use_order
    /\ UNCHANGED <<now, last_set, set_ts>>
    /\ UNCHANGED non_cache_vars

\* preview_cache.set(key, value); time.time() is read once by the purge and
\* once more for the stored timestamp, and the clock may advance in between
CacheSet(k, v) ==
    \E t2 \in {now, now + 1} :
        /\ t2 <= MaxTime
        /\ entries' = SetEntries(entries, k, v, now, t2)
        /\ now' = t2
        /\ cache_op' = [op |-> "set", key |-> k, result |-> Absent, lru_hit |-> FALSE]
        /\ last_set' = [key |-> k, value |-> v, ts |-> t2]
        /\ set_ts' = [set_ts EXCEPT ![k] = t2]
        /\ use_order' = Touch(use_order, k)
        /\ UNCHANGED non_cache_vars

CacheNext ==
    \/ Tick
    \/ \E k \in Keys : CacheGet(k)
    \/ \E k \in Keys, v \in Values : CacheSet(k, v)

\* preview_cache.set(key, value), keeping as history whether the key was in
\* the cache, unexpired, when the call started
CacheSetNoting(k, v) ==
    \E t2 \in {now, now + 1} :
        /\ t2 <= MaxTime
        /\ entries' = SetEntries(entries, k, v, now, t2)
        /\ now' = t2
        /\ cache_op' = [op |-> "set", key |-> k, result |-> Absent, lru_hit |-> FALSE,
                         replaced |-> HasKey(PurgeExpired(entries, now), k)]
        /\ last_set' = [key |-> k, value |-> v, ts |-> t2]
        /\ set_ts' = [set_ts EXCEPT ![k] = t2]
        /\ use_order' = Touch(use_order, k)
        /\ UNCHANGED non_cache_vars

OverwriteNext ==
    \/ Tick
    \/ \E k \in Keys : CacheGet(k)
    \/ \E k \in Keys, v \in Values : CacheSetNoting(k, v)

\* the cache variables when another component is under study
CacheIdle == CacheInit

----------------------------------------------------------------------------
(* Records, storage and the reference queries over them *)

NoFlow == [user_id |-> 0, flow_data |-> PyNone]
NoFile == [user_id |-> 0, batch_id |-> 0]
NoBatch == [user_id |-> 0, flow_id |-> 0]

\* the database session together with the upload directory
DB == [flows |-> flows, files |-> files, batches |-> batches, disk |-> disk]

\* Python truthiness of flow.flow_data: None and the empty dict are falsy
Truthy(x) == ~(x = PyNone \/ (IsDict(x) /\ DOMAIN x.v = {}))

\* FileReferenceService.get_files_for_flow
FilesForFlow(flow) ==
    IF ~Truthy(flow.flow_data) THEN {} ELSE ExtractFileIds(flow.flow_data)

\* variant: the query is not filtered by the owning user
IsFileReferenced_AnyUser(db, fid, u, exclude_flow_id) ==
    \E f \in FlowIdSet :
        /\ db.flows[f] # NoFlow
        /\ ~(exclude_flow_id # 0 /\ f = exclude_flow_id)
        /\ fid \in FilesForFlow(db.flows[f])

\* FileReferenceService.is_file_referenced (exclude_flow_id 0 stands for None)
IsFileReferenced(db, fid, u, exclude_flow_id) ==
    \E f \in FlowIdSet :
        /\ db.flows[f].user_id = u
        /\ ~(exclude_flow_id # 0 /\ f = exclude_flow_id)
        /\ fid \in FilesForFlow(db.flows[f])

Min(S) == CHOOSE x \in S : \A y \in S : x <= y

\* remove_file_id_from_flow_data applied for each id in turn
RECURSIVE RemoveAll(_, _)
RemoveAll(fd, fids) ==
    IF fids = {} THEN fd
    ELSE RemoveAll(RemoveFileId(fd, Min(fids)).doc, fids \ {Min(fids)})

\* the user's flows with the ids stripped from their documents
StripFromFlows(fl, u, fids) ==
    [f \in DOMAIN fl |->
        IF fl[f].user_id = u /\ fl[f].flow_data # PyNone
        THEN [fl[f] EXCEPT !.flow_data = RemoveAll(@, fids)]
        ELSE fl[f]]

\* storage.delete_file and db.delete(file) for a set of files
DropFiles(db, fids) ==
    [db EXCEPT !.files = [i \in DOMAIN @ |-> IF i \in fids THEN NoFile ELSE @[i]],
               !.disk = @ \ fids]

FilesInBatch(db, b) == {i \in DOMAIN db.files : db.files[i].batch_id = b}

\* variant: the batch row goes, its member files stay
DeleteBatchSvc_KeepFiles(db, u, b) == [db EXCEPT !.batches[b] = NoBatch]

\* FileService.delete_batch, for a batch the user owns
DeleteBatchSvc(db, u, b) ==
    LET fids == FilesInBatch(db, b)
        stripped == [db EXCEPT !.flows = StripFromFlows(@, u, fids)]
    IN  [DropFiles(stripped, fids) EXCEPT !.batches[b] = NoBatch]

RECURSIVE DeleteBatches(_, _, _)
DeleteBatches(db, u, bs) ==
    IF bs = {} THEN db
    ELSE DeleteBatches(DeleteBatchSvc(db, u, Min(bs)), u, bs \ {Min(bs)})

----------------------------------------------------------------------------
(* Routes that create records *)

GcInit ==
    /\ flows = [f \in FlowIdSet |-> NoFlow]
    /\ files = [i \in GcFileIds |-> NoFile]
    /\ batches = [b \in BatchIds |-> NoBatch]
    /\ disk = {}
    /\ next_id = [flow |-> 1, file |-> 1, batch |-> 1]
    /\ gc_op = "none"
    /\ gc_removed = {}

GcIdle == GcInit

\* a list of plain targets
TargetList(ids) == PyList([n \in 1..Cardinality(ids) |->
    PyDict([fileId |-> PyInt(CHOOSE i \in ids : Cardinality({j \in ids : j < i}) = n - 1),
            sheetName |-> PyStr("S")])])

IdList(ids) == PyList([n \in 1..Cardinality(ids) |->
    PyInt(CHOOSE i \in ids : Cardinality({j \in ids : j < i}) = n - 1)])

\* the documents the client saves: one node that lists files in fileIds, or
\* one node that names the first file as a mapping target
FlowDocs ==
    {DocOf(<<NodeOf(PyDict([fileIds |-> IdList(S)]))>>) : S \in SUBSET GcFileIds}
    \cup {DocOf(<<NodeOf(PyDict([mappingTargets |-> TargetList({1})]))>>)}

\* POST /flows
CreateFlow(u, doc) ==
    /\ next_id.flow \in FlowIdSet
    /\ flows' = [flows EXCEPT ![next_id.flow] = [user_id |-> u, flow_data |-> doc]]
    /\ next_id' = [next_id EXCEPT !.flow = @ + 1]
    /\ gc_op' = "create_flow"
    /\ gc_removed' = {}
    /\ UNCHANGED <<files, batches, disk>>
    /\ UNCHANGED non_gc_vars

\* POST /files/batches: a batch of the user, scoped to no flow
CreateBatch(u) ==
    /\ next_id.batch \in BatchIds
    /\ batches' = [batches EXCEPT ![next_id.batch] = [user_id |-> u, flow_id |-> 0]]
    /\ next_id' = [next_id EXCEPT !.batch = @ + 1]
    /\ gc_op' = "create_batch"
    /\ gc_removed' = {}
    /\ UNCHANGED <<flows, files, disk>>
    /\ UNCHANGED non_gc_vars

\* a batch created for flow fl of the user: it carries the flow's id, and
\* its lifetime is tied to that flow
CreateFlowBatch(u, fl) ==
    /\ next_id.batch \in BatchIds
    /\ fl \in FlowIdSet /\ flows[fl].user_id = u
    /\ batches' = [batches EXCEPT ![next_id.batch] = [user_id |-> u, flow_id |-> fl]]
    /\ next_id' = [next_id EXCEPT !.batch = @ + 1]
    /\ gc_op' = "create_batch"
    /\ gc_removed' = {}
    /\ UNCHANGED <<flows, files, disk>>
    /\ UNCHANGED non_gc_vars

\* POST /files/upload, into no batch (0) or into a batch of the user
UploadFile(u, b) ==
    /\ next_id.file \in GcFileIds
    /\ b = 0 \/ (b \in BatchIds /\ batches[b].user_id = u)
    /\ files' = [files EXCEPT ![next_id.file] = [user_id |-> u, batch_id |-> b]]
    /\ disk' = disk \cup {next_id.file}
    /\ next_id' = [next_id EXCEPT !.file = @ + 1]
    /\ gc_op' = "upload_file"
    /\ gc_removed' = {}
    /\ UNCHANGED <<flows, batches>>
    /\ UNCHANGED non_gc_vars

----------------------------------------------------------------------------
(* Routes that collect garbage *)

\* the session's records and the directory written back to the state
Commit(db) ==
    /\ flows' = db.flows
    /\ files' = db.files
    /\ batches' = db.batches
    /\ disk' = db.disk
    /\ gc_removed' = {i \in DOMAIN files : files[i] # NoFile /\ db.files[i] = NoFile}

\* variant: every file the edit drops is deleted without a reference check
UpdateDeletable_NoCheck(db, removed_file_ids, u, f) ==
    {i \in removed_file_ids \cap DOMAIN db.files : db.files[i].user_id = u}

\* update_flow: the removed ids whose file is deleted
UpdateDeletable(db, removed_file_ids, u, f) ==
    {i \in removed_file_ids \cap DOMAIN db.files :
        /\ ~IsFileReferenced(db, i, u, f)
        /\ db.files[i].user_id = u}

\* PUT /flows/{flow_id} with a flow_data
UpdateFlow(u, f, doc) ==
    /\ flows[f].user_id = u
    /\ LET old_file_ids == FilesForFlow(flows[f])
           new_file_ids == ExtractFileIds(doc)
           removed_file_ids == old_file_ids \ new_file_ids
           db1 == [DB EXCEPT !.flows[f].flow_data = doc]
       IN  Commit(DropFiles(db1, UpdateDeletable(db1, removed_file_ids, u, f)))
    /\ gc_op' = "update_flow"
    /\ UNCHANGED next_id
    /\ UNCHANGED non_gc_vars

\* DELETE /files/{file_id}
DeleteFile(u, i) ==
    /\ files[i].user_id = u
    /\ Commit(DropFiles([DB EXCEPT !.flows = StripFromFlows(@, u, {i})], {i}))
    /\ gc_op' = "delete_file"
    /\ UNCHANGED next_id
    /\ UNCHANGED non_gc_vars

\* DELETE /files/batches/{batch_id}
DeleteBatch(u, b) ==
    /\ batches[b].user_id = u
    /\ Commit(DeleteBatchSvc(DB, u, b))
    /\ gc_op' = "delete_batch"
    /\ UNCHANGED next_id
    /\ UNCHANGED non_gc_vars

\* delete_flow step 3: the batches touched by the flow's files, in id order;
\* a batch none of whose files is referenced by the user's flows goes to
\* delete_batch, which raises 404 for a batch of another user
RECURSIVE CleanupBatches(_, _, _)
CleanupBatches(db, u, todo) ==
    IF todo = {} THEN [db |-> db, raised |-> FALSE]
    ELSE LET b == Min(todo) IN
         IF db.batches[b] = NoBatch
            \/ \E i \in FilesInBatch(db, b) : IsFileReferenced(db, i, u, 0)
         THEN CleanupBatches(db, u, todo \ {b})
         ELSE IF db.batches[b].user_id # u
              THEN [db |-> db, raised |-> TRUE]
              ELSE CleanupBatches(DeleteBatchSvc(db, u, b), u, todo \ {b})

\* delete_flow step 4: the captured files no flow of the user references
OrphanedOf(db, u, file_ids_in_flow) ==
    {i \in file_ids_in_flow \cap DOMAIN db.files :
        /\ ~IsFileReferenced(db, i, u, 0)
        /\ db.files[i].user_id = u}

\* variant: the references are re-checked while the flow row still exists
DeleteFlowResult_RecheckFirst(db, u, f) ==
    LET file_ids_in_flow == FilesForFlow(db.flows[f])
        batch_ids_in_flow == {db.files[i].batch_id :
                                 i \in {j \in file_ids_in_flow \cap DOMAIN db.files :
                                           db.files[j].batch_id # 0}}
        flow_batch_ids == {b \in DOMAIN db.batches : db.batches[b].flow_id = f}
        s2 == DeleteBatches(db, u, flow_batch_ids)
        r3 == CleanupBatches(s2, u, batch_ids_in_flow \ flow_batch_ids)
    IN  IF r3.raised
        THEN [s2 EXCEPT !.disk = r3.db.disk, !.flows[f] = NoFlow]
        ELSE [DropFiles(r3.db, OrphanedOf(r3.db, u, file_ids_in_flow)) EXCEPT !.flows[f] = NoFlow]

\* the records and bytes left by delete_flow
DeleteFlowResult(db, u, f) ==
    LET file_ids_in_flow == FilesForFlow(db.flows[f])
        batch_ids_in_flow == {db.files[i].batch_id :
                                 i \in {j \in file_ids_in_flow \cap DOMAIN db.files :
                                           db.files[j].batch_id # 0}}
        flow_batch_ids == {b \in DOMAIN db.batches : db.batches[b].flow_id = f}
        \* 1.5 and 2: the flow's own batches and the flow row, committed
        s2 == [DeleteBatches(db, u, flow_batch_ids) EXCEPT !.flows[f] = NoFlow]
        r3 == CleanupBatches(s2, u, batch_ids_in_flow \ flow_batch_ids)
    IN  IF r3.raised
        THEN \* the request fails: uncommitted records come back, bytes do not
             [s2 EXCEPT !.disk = r3.db.disk]
        ELSE DropFiles(r3.db, OrphanedOf(r3.db, u, file_ids_in_flow))

\* the answer of delete_flow: the lists it returns, or the error of a
\* delete_batch that raised.  The session does not autoflush, so the query
\* of step 4 still finds the rows step 3 marked deleted, and no longer the
\* rows step 1.5 deleted, which step 2 committed
DeleteFlowResponse(db, u, f) ==
    LET file_ids_in_flow == FilesForFlow(db.flows[f])
        batch_ids_in_flow == {db.files[i].batch_id :
                                 i \in {j \in file_ids_in_flow \cap DOMAIN db.files :
                                           db.files[j].batch_id # 0}}
        flow_batch_ids == {b \in DOMAIN db.batches : db.batches[b].flow_id = f}
        s2 == [DeleteBatches(db, u, flow_batch_ids) EXCEPT !.flows[f] = NoFlow]
        r3 == CleanupBatches(s2, u, batch_ids_in_flow \ flow_batch_ids)
    IN  IF r3.raised
        THEN [status |-> "error", deleted_files |-> {}, deleted_batches |-> {}]
        ELSE [status |-> "ok",
              deleted_files |-> {i \in file_ids_in_flow \cap DOMAIN db.files :
                                    /\ ~IsFileReferenced(r3.db, i, u, 0)
                                    /\ s2.files[i].user_id = u},
              deleted_batches |-> flow_batch_ids
                                  \cup {b \in DOMAIN db.batches :
                                           s2.batches[b] # NoBatch /\ r3.db.batches[b] = NoBatch}]

\* DELETE /flows/{flow_id}
DeleteFlow(u, f) ==
    /\ flows[f].user_id = u
    /\ Commit(DeleteFlowResult(DB, u, f))
    /\ gc_op' = "delete_flow"
    /\ UNCHANGED next_id
    /\ UNCHANGED non_gc_vars

GcNext ==
    \/ \E u \in Users, doc \in FlowDocs : CreateFlow(u, doc)
    \/ \E u \in Uploaders : CreateBatch(u)
    \/ \E u \in Uploaders, fl \in FlowIdSet : CreateFlowBatch(u, fl)
    \/ \E u \in Uploaders, b \in {0} \cup BatchIds : UploadFile(u, b)
    \/ \E u \in Users, f \in FlowIdSet, doc \in FlowDocs : UpdateFlow(u, f, doc)
    \/ \E u \in Users, i \in GcFileIds : DeleteFile(u, i)
    \/ \E u \in Users, b \in BatchIds : DeleteBatch(u, b)
    \/ \E u \in Users, f \in FlowIdSet : DeleteFlow(u, f)

----------------------------------------------------------------------------
(* PreviewCache called from two threads.  The async route handlers run on  *)
(* the event loop; _precompute_file_previews is a plain function given to  *)
(* BackgroundTasks, which runs it on a pool thread.  The cache takes no    *)
(* lock, so the statements of get and set interleave.                      *)

Threads == {"loop", "pool"}
Other(t) == CHOOSE o \in Threads : o # t
ConcKeys == {1, 2}

NoCall == [op |-> "none", key |-> 0, value |-> Absent, t |-> 0, ts |-> NoTime]

\* a structural change of the OrderedDict invalidates a live iterator
Invalidate(it, t, mutated) ==
    [it EXCEPT ![Other(t)] = IF mutated /\ @ = "live" THEN "stale" ELSE @]

\* self._entries[key] = (ts, value): a present key keeps its position
StoreItem(es, k, ts, v) ==
    IF HasKey(es, k)
    THEN [i \in DOMAIN es |-> IF es[i].key = k THEN [key |-> k, ts |-> ts, value |-> v]
                              ELSE es[i]]
    ELSE Append(es, [key |-> k, ts |-> ts, value |-> v])

ConcInit ==
    /\ cc_entries = <<>>
    /\ cc_now = 0
    /\ cc_pc = [t \in Threads |-> "idle"]
    /\ cc_call = [t \in Threads |-> NoCall]
    /\ cc_iter = [t \in Threads |-> "none"]
    /\ cc_raised = [t \in Threads |-> "none"]

ConcIdle == ConcInit

ConcTick ==
    /\ cc_now < MaxTime
    /\ cc_now' = cc_now + 1
    /\ UNCHANGED <<cc_entries, cc_pc, cc_call, cc_iter, cc_raised>>
    /\ UNCHANGED non_conc_vars

\* a thread enters get or set: _purge_expired reads the clock and starts
\* to iterate over self._entries.items()
ConcEnter(t, op, k, v) ==
    /\ cc_pc[t] = "idle"
    /\ cc_raised[t] = "none"
    /\ cc_call' = [cc_call EXCEPT ![t] = [op |-> op, key |-> k, value |-> v,
                                          t |-> cc_now, ts |-> NoTime]]
    /\ cc_iter' = [cc_iter EXCEPT ![t] = IF cc_entries = <<>> THEN "done" ELSE "live"]
    /\ cc_pc' = [cc_pc EXCEPT ![t] = "purge"]
    /\ UNCHANGED <<cc_entries, cc_now, cc_raised>>
    /\ UNCHANGED non_conc_vars

\* the iteration ends: RuntimeError if the dict was mutated under it,
\* otherwise the expired keys are popped
ConcPurge(t) ==
    /\ cc_pc[t] = "purge"
    /\ IF cc_iter[t] = "stale"
       THEN /\ cc_raised' = [cc_raised EXCEPT ![t] = "RuntimeError"]
            /\ cc_pc' = [cc_pc EXCEPT ![t] = "idle"]
            /\ cc_iter' = [cc_iter EXCEPT ![t] = "none"]
            /\ UNCHANGED cc_entries
       ELSE /\ cc_entries' = PurgeExpired(cc_entries, cc_call[t].t)
            /\ cc_iter' = Invalidate([cc_iter EXCEPT ![t] = "none"], t,
                                     cc_entries' # cc_entries)
            /\ cc_pc' = [cc_pc EXCEPT ![t] = IF cc_call[t].op = "get" THEN "get_check"
                                             ELSE "set_pop"]
            /\ UNCHANGED cc_raised
    /\ UNCHANGED <<cc_now, cc_call>>
    /\ UNCHANGED non_conc_vars

\* get: if key not in self._entries: return None
ConcGetCheck(t) ==
    /\ cc_pc[t] = "get_check"
    /\ cc_pc' = [cc_pc EXCEPT ![t] = IF HasKey(cc_entries, cc_call[t].key) THEN "get_pop"
                                     ELSE "idle"]
    /\ UNCHANGED <<cc_entries, cc_now, cc_call, cc_iter, cc_raised>>
    /\ UNCHANGED non_conc_vars

\* get: ts, value = self._entries.pop(key); KeyError if the key has gone
ConcGetPop(t) ==
    /\ cc_pc[t] = "get_pop"
    /\ IF HasKey(cc_entries, cc_call[t].key)
       THEN /\ cc_call' = [cc_call EXCEPT
                              ![t].ts = EntryOf(cc_entries, cc_call[t].key).ts,
                              ![t].value = EntryOf(cc_entries, cc_call[t].key).value]
            /\ cc_entries' = PopKey(cc_entries, cc_call[t].key)
            /\ cc_iter' = Invalidate(cc_iter, t, TRUE)
            /\ cc_pc' = [cc_pc EXCEPT ![t] = "get_store"]
            /\ UNCHANGED cc_raised
       ELSE /\ cc_raised' = [cc_raised EXCEPT ![t] = "KeyError"]
            /\ cc_pc' = [cc_pc EXCEPT ![t] = "idle"]
            /\ UNCHANGED <<cc_entries, cc_call, cc_iter>>
    /\ UNCHANGED cc_now
    /\ UNCHANGED non_conc_vars

\* get: self._entries[key] = (ts, value); return value
ConcGetStore(t) ==
    /\ cc_pc[t] = "get_store"
    /\ cc_entries' = StoreItem(cc_entries, cc_call[t].key, cc_call[t].ts, cc_call[t].value)
    /\ cc_iter' = Invalidate(cc_iter, t, ~HasKey(cc_entries, cc_call[t].key))
    /\ cc_pc' = [cc_pc EXCEPT ![t] = "idle"]
    /\ UNCHANGED <<cc_now, cc_call, cc_raised>>
    /\ UNCHANGED non_conc_vars

\* set: if key in self._entries: self._entries.pop(key, None)
ConcSetPop(t) ==
    /\ cc_pc[t] = "set_pop"
    /\ cc_entries' = PopKey(cc_entries, cc_call[t].key)
    /\ cc_iter' = Invalidate(cc_iter, t, HasKey(cc_entries, cc_call[t].key))
    /\ cc_pc' = [cc_pc EXCEPT ![t] = "set_store"]
    /\ UNCHANGED <<cc_now, cc_call, cc_raised>>
    /\ UNCHANGED non_conc_vars

\* set: self._entries[key] = (time.time(), value)
ConcSetStore(t) ==
    /\ cc_pc[t] = "set_store"
    /\ cc_entries' = StoreItem(cc_entries, cc_call[t].key, cc_now, cc_call[t].value)
    /\ cc_iter' = Invalidate(cc_iter, t, ~HasKey(cc_entries, cc_call[t].key))
    /\ cc_pc' = [cc_pc EXCEPT ![t] = "set_evict"]
    /\ UNCHANGED <<cc_now, cc_call, cc_raised>>
    /\ UNCHANGED non_conc_vars

\* set: while len(self._entries) > self._max_entries: popitem(last=False)
ConcSetEvict(t) ==
    /\ cc_pc[t] = "set_evict"
    /\ IF Len(cc_entries) > max_entries
       THEN /\ cc_entries' = Tail(cc_entries)
            /\ cc_iter' = Invalidate(cc_iter, t, TRUE)
            /\ UNCHANGED cc_pc
       ELSE /\ cc_pc' = [cc_pc EXCEPT ![t] = "idle"]
            /\ UNCHANGED <<cc_entries, cc_iter>>
    /\ UNCHANGED <<cc_now, cc_call, cc_raised>>
    /\ UNCHANGED non_conc_vars

ConcNext ==
    \/ ConcTick
    \/ \E t \in Threads, op \in {"get", "set"}, k \in ConcKeys : ConcEnter(t, op, k, "a")
    \/ \E t \in Threads : ConcPurge(t)
    \/ \E t \in Threads : ConcGetCheck(t)
    \/ \E t \in Threads : ConcGetPop(t)
    \/ \E t \in Threads : ConcGetStore(t)
    \/ \E t \in Threads : ConcSetPop(t)
    \/ \E t \in Threads : ConcSetStore(t)
    \/ \E t \in Threads : ConcSetEvict(t)

----------------------------------------------------------------------------
(* The preview fingerprint: stable_hash over the request's inputs *)

\* a JSON object as Python holds it: its items in insertion order
ODict(items) == [t |-> "odict", v |-> items]
Item(k, x) == [k |-> k, x |-> x]
IsODict(x) == x.t = "odict"
ItemKeys(items) == {items[i].k : i \in DOMAIN items}
ItemValue(items, k) == items[CHOOSE i \in DOMAIN items : items[i].k = k].x

\* variant: json.dumps without sort_keys keeps the insertion order
RECURSIVE Dumps_Unsorted(_)
Dumps_Unsorted(x) ==
    IF IsODict(x) THEN ODict([i \in DOMAIN x.v |-> Item(x.v[i].k, Dumps_Unsorted(x.v[i].x))])
    ELSE IF IsList(x) THEN PyList([i \in DOMAIN x.v |-> Dumps_Unsorted(x.v[i])])
    ELSE x

\* json.dumps(payload, sort_keys=True): the text is determined by the
\* key -> value mapping of every object and by the order of every array
RECURSIVE Dumps(_)
Dumps(x) ==
    IF IsODict(x) THEN PyDict([k \in ItemKeys(x.v) |-> Dumps(ItemValue(x.v, k))])
    ELSE IF IsList(x) THEN PyList([i \in DOMAIN x.v |-> Dumps(x.v[i])])
    ELSE x

\* hashlib.sha256(encoded).hexdigest(), taken to be free of collisions
Sha256(encoded) == encoded
stable_hash(payload) == Sha256(Dumps(payload))

\* file_fingerprints: one {"id", "size"} per row, in the order of the query
FileFingerprints(db_files) ==
    PyList([i \in DOMAIN db_files |->
        ODict(<<Item("id", PyInt(db_files[i].id)), Item("size", PyInt(db_files[i].size))>>)])

\* request.preview_target or {}
PreviewTargetPayload(pt) == IF pt = PyNone \/ (IsODict(pt) /\ pt.v = <<>>) THEN ODict(<<>>) ELSE pt

\* preview_cache_key of POST /transform/execute
PreviewCacheKey(r) ==
    stable_hash(ODict(<<Item("user_id", PyInt(r.user_id)),
                        Item("files", FileFingerprints(r.db_files)),
                        Item("flow_data", r.flow_data),
                        Item("preview_target", PreviewTargetPayload(r.preview_target))>>))

\* the rows a query returns, in some order (the query has no ORDER BY)
FileRows == {<<>>,
             <<[id |-> 1, size |-> 10]>>, <<[id |-> 1, size |-> 20]>>,
             <<[id |-> 2, size |-> 10]>>,
             <<[id |-> 1, size |-> 10], [id |-> 2, size |-> 10]>>,
             <<[id |-> 2, size |-> 10], [id |-> 1, size |-> 10]>>}

\* flow documents as the client sends them, with both orders of the keys
FpDocs == {ODict(<<Item("nodes", PyList(ns)), Item("edges", EmptyList)>>) :
              ns \in {<<>>, <<PyStr("a")>>, <<PyStr("a"), PyStr("b")>>, <<PyStr("b"), PyStr("a")>>}}
          \cup {ODict(<<Item("edges", EmptyList), Item("nodes", PyList(ns))>>) :
              ns \in {<<>>, <<PyStr("a")>>}}

FpTargets == {PyNone,
              ODict(<<Item("file_id", PyInt(1)), Item("sheet_name", PyStr("S"))>>),
              ODict(<<Item("sheet_name", PyStr("S")), Item("file_id", PyInt(1))>>),
              ODict(<<Item("virtual_id", PyStr("output:o:S"))>>)}

FpRequests == [user_id : Users, db_files : FileRows, flow_data : FpDocs,
               preview_target : FpTargets]

NoKey == [t |-> "none"]

FpInit ==
    /\ fp_req \in [1..2 -> FpRequests]
    /\ fp_key = [i \in 1..2 |-> NoKey]

FpIdle ==
    /\ fp_req = <<>>
    /\ fp_key = <<>>

\* request i reaches the computation of its cache key
ComputeKey(i) ==
    /\ fp_req # <<>>
    /\ fp_key[i] = NoKey
    /\ fp_key' = [fp_key EXCEPT ![i] = PreviewCacheKey(fp_req[i])]
    /\ UNCHANGED fp_req
    /\ UNCHANGED non_fp_vars

FpNext == \E i \in 1..2 : ComputeKey(i)

----------------------------------------------------------------------------
(* TransformService.execute_flow: tables, targets and the table map *)

\* a DataFrame: its column labels in order and its rows (column -> value)
Null == "NaN"
EmptyTable == [cols |-> <<>>, rows |-> <<>>]
SeqSet(q) == {q[i] : i \in DOMAIN q}

\* file_service.parse_file on the default sheet of the uploaded files
ParseFile(fid) ==
    IF fid = 1 THEN [cols |-> <<"A">>, rows |-> <<[A |-> "a1"]>>]
    ELSE [cols |-> <<"B">>, rows |-> <<[B |-> "b1"], [B |-> "b2"]>>]

\* a target: virtualId ("" when absent) and fileId (0 when absent); the
\* sheet name is absent throughout, so every file key is the default sheet
Target(vid, fid) == [virtualId |-> vid, fileId |-> fid]
NoKeyYet == <<"none">>

table_key(fid) == <<"file", fid, "__default__">>
virtual_key(vid) == <<"virtual", vid>>
TableKeys == {table_key(1), table_key(2), virtual_key("v1"), virtual_key("v2")}

\* the execution state: table_map (key -> object, 0 when absent), the
\* DataFrame objects created so far, last_table_key, whether an exception
\* is propagating out of the loop, and the history of the keys consumed as
\* a source, of the transform calls made, of the files parsed, of the key
\* store_table_for_target wrote last and of the target lists the last node
\* was wired with
EngState(tm, heap, last, consumed, calls) ==
    [tm |-> tm, heap |-> heap, last |-> last, consumed |-> consumed, calls |-> calls,
     raised |-> FALSE, parsed |-> {}, stored |-> NoKeyYet, wired |-> <<>>]
EngStart == EngState([k \in TableKeys |-> 0], <<>>, NoKeyYet, {}, <<>>)

\* a new DataFrame object
New(st, table) == [st |-> [st EXCEPT !.heap = Append(@, table)], ref |-> Len(st.heap) + 1]

\* default_file_id = next(iter(file_paths_by_id.keys()), None)
DefaultFileId(fmap) == IF fmap = <<>> THEN 0 ELSE fmap[1]

\* variant: the file is parsed again on every load, whatever the map holds
LoadTable_Reparses(st, fmap, fid) ==
    IF fid \notin SeqSet(fmap) THEN New(st, EmptyTable)
    ELSE LET n == New(st, ParseFile(fid))
         IN  [st |-> [n.st EXCEPT !.tm[table_key(fid)] = n.ref, !.parsed = @ \cup {fid}],
              ref |-> n.ref]

\* load_table(file_id, sheet_name)
LoadTable(st, fmap, fid) ==
    IF st.tm[table_key(fid)] # 0 THEN [st |-> st, ref |-> st.tm[table_key(fid)]]
    ELSE IF fid \notin SeqSet(fmap) THEN New(st, EmptyTable)
    ELSE LET n == New(st, ParseFile(fid))
         IN  [st |-> [n.st EXCEPT !.tm[table_key(fid)] = n.ref, !.parsed = @ \cup {fid}],
              ref |-> n.ref]

\* the key load_table_for_target reads, or NoKeyYet
SourceKey(fmap, target) ==
    IF target.virtualId # "" THEN virtual_key(target.virtualId)
    ELSE IF target.fileId # 0 THEN table_key(target.fileId)
    ELSE IF DefaultFileId(fmap) # 0 THEN table_key(DefaultFileId(fmap))
    ELSE NoKeyYet

\* variant: a virtual key that is absent is read from the target's file
LoadTableForTarget_FileFallback(st, fmap, target) ==
    LET s1 == [st EXCEPT !.consumed = @ \cup ({SourceKey(fmap, target)} \ {NoKeyYet})]
    IN  IF target.virtualId # "" /\ s1.tm[virtual_key(target.virtualId)] # 0
        THEN [st |-> s1, ref |-> s1.tm[virtual_key(target.virtualId)]]
        ELSE IF target.fileId # 0 THEN LoadTable(s1, fmap, target.fileId)
        ELSE IF DefaultFileId(fmap) = 0 THEN New(s1, EmptyTable)
        ELSE LoadTable(s1, fmap, DefaultFileId(fmap))

\* load_table_for_target(target)
LoadTableForTarget(st, fmap, target) ==
    LET s1 == [st EXCEPT !.consumed = @ \cup ({SourceKey(fmap, target)} \ {NoKeyYet})]
    IN  IF target.virtualId # ""
        THEN IF s1.tm[virtual_key(target.virtualId)] # 0
             THEN [st |-> s1, ref |-> s1.tm[virtual_key(target.virtualId)]]
             ELSE New(s1, EmptyTable)
        ELSE IF target.fileId # 0 THEN LoadTable(s1, fmap, target.fileId)
        ELSE IF DefaultFileId(fmap) = 0 THEN New(s1, EmptyTable)
        ELSE LoadTable(s1, fmap, DefaultFileId(fmap))

\* the key store_table_for_target writes and returns (None without ids)
StoreKey(target) ==
    IF target.virtualId # "" THEN virtual_key(target.virtualId)
    ELSE IF target.fileId # 0 THEN table_key(target.fileId)
    ELSE NoKeyYet

\* last_table_key = store_table_for_target(target, df)
StoreTableForTarget(st, fmap, target, ref) ==
    IF StoreKey(target) = NoKeyYet THEN [st EXCEPT !.last = NoKeyYet]
    ELSE [st EXCEPT !.tm[StoreKey(target)] = ref, !.last = StoreKey(target),
                    !.stored = StoreKey(target)]

----------------------------------------------------------------------------
(* The transforms of the registry used here, and pandas.concat *)

TransformIds == {"append_files", "rename_columns", "delete_rows"}
SkipTypes == {"upload", "source", "data", "output", "mapping"}

\* the config of every rename_columns node: {"mapping": {"A": "C"}}
RenameFrom == "A"
RenameTo == "C"

\* the config of every delete_rows node:
\* {"condition": "duplicates", "columns": ["A"]}
DedupColumn == "A"

\* transform.validate(df, config)
Validate(bt, table) ==
    IF bt = "rename_columns" THEN RenameFrom \in SeqSet(table.cols) ELSE TRUE

RenameCol(c) == IF c = RenameFrom THEN RenameTo ELSE c

\* keep="first": the rows whose DedupColumn value was not seen before
RECURSIVE DropDuplicates(_, _)
DropDuplicates(rows, seen) ==
    IF rows = <<>> THEN <<>>
    ELSE IF Head(rows)[DedupColumn] \in seen THEN DropDuplicates(Tail(rows), seen)
    ELSE <<Head(rows)>> \o DropDuplicates(Tail(rows), seen \cup {Head(rows)[DedupColumn]})

\* df.drop_duplicates(subset=["A"]) raises KeyError when the frame is not
\* empty and has no column A
ExecuteRaises(bt, table) ==
    /\ bt = "delete_rows"
    /\ table.cols # <<>> /\ table.rows # <<>>
    /\ DedupColumn \notin SeqSet(table.cols)

\* the content of transform.execute(df, config), when it returns
Transformed(bt, table) ==
    IF bt = "append_files" THEN table
    ELSE IF bt = "delete_rows"
    THEN IF table.cols = <<>> \/ table.rows = <<>> THEN table
         ELSE [cols |-> table.cols, rows |-> DropDuplicates(table.rows, {})]
    ELSE [cols |-> [i \in DOMAIN table.cols |-> RenameCol(table.cols[i])],
          rows |-> [i \in DOMAIN table.rows |->
                      [c \in {RenameCol(x) : x \in DOMAIN table.rows[i]} |->
                          IF c = RenameTo /\ RenameFrom \in DOMAIN table.rows[i]
                          THEN table.rows[i][RenameFrom] ELSE table.rows[i][c]]]]

\* transform.execute: append_files returns df itself, the others a new
\* DataFrame, or the call raises
Execute(st, bt, ref) ==
    IF bt = "append_files" THEN [st |-> st, ref |-> ref]
    ELSE IF ExecuteRaises(bt, st.heap[ref]) THEN [st |-> [st EXCEPT !.raised = TRUE], ref |-> 0]
    ELSE New(st, Transformed(bt, st.heap[ref]))

\* the validate call and, when it passes, the execute call, on one table
Called(st, bt, ref) ==
    [st EXCEPT !.calls = Append(@, [input |-> st.heap[ref],
                                   valid |-> Validate(bt, st.heap[ref])])]

\* column labels of the frames in order of first appearance
RECURSIVE UnionCols(_, _)
UnionCols(tables, acc) ==
    IF tables = <<>> THEN acc
    ELSE LET Fresh(c) == c \notin SeqSet(acc)
         IN  UnionCols(Tail(tables), acc \o SelectSeq(Head(tables).cols, Fresh))

RECURSIVE AllRows(_)
AllRows(tables) == IF tables = <<>> THEN <<>> ELSE Head(tables).rows \o AllRows(Tail(tables))

\* variant: only the columns of the first frame are kept
Concat_FirstColumns(tables) ==
    LET cols == Head(tables).cols
        rows == AllRows(tables)
    IN  [cols |-> cols,
         rows |-> [i \in DOMAIN rows |->
                     [c \in SeqSet(cols) |-> IF c \in DOMAIN rows[i] THEN rows[i][c] ELSE Null]]]

\* pd.concat(result_frames, ignore_index=True, sort=False)
Concat(tables) ==
    LET cols == UnionCols(tables, <<>>)
        rows == AllRows(tables)
    IN  [cols |-> cols,
         rows |-> [i \in DOMAIN rows |->
                     [c \in SeqSet(cols) |-> IF c \in DOMAIN rows[i] THEN rows[i][c] ELSE Null]]]

\* variant: the table is stored as it is, without .copy()
Copy_Alias(st, ref) == [st |-> st, ref |-> ref]

\* df.copy()
Copy(st, ref) == New(st, st.heap[ref])

----------------------------------------------------------------------------
(* One node of the flow: normalization and the three wiring modes *)

\* variant: the legacy target and destination fields are ignored
Normalize_ListsOnly(node) ==
    LET s1 == node.sourceTargets
        d1 == node.destinationTargets
        s2 == IF s1 = <<>> /\ d1 # <<>> THEN d1 ELSE s1
        d2 == IF d1 = <<>> THEN s2 ELSE d1
    IN  [sources |-> s2, destinations |-> d2]

\* sourceTargets / destinationTargets after the legacy fallbacks; both
\* empty means the node is skipped
Normalize(node) ==
    LET s1 == IF node.sourceTargets = <<>> THEN node.target ELSE node.sourceTargets
        d1 == IF node.destinationTargets = <<>> THEN node.destination
              ELSE node.destinationTargets
        s2 == IF s1 = <<>> /\ d1 # <<>> THEN d1 ELSE s1
        d2 == IF d1 = <<>> THEN s2 ELSE d1
    IN  [sources |-> s2, destinations |-> d2]

WiringMode(srcs, dsts) ==
    IF srcs = <<>> /\ dsts = <<>> THEN "skip"
    ELSE IF Len(srcs) > Len(dsts) /\ dsts # <<>> THEN "append"
    ELSE IF Len(srcs) = 1 /\ Len(dsts) > 1 THEN "broadcast"
    ELSE IF Len(srcs) # Len(dsts) THEN "mismatch"
    ELSE "pairs"

\* append mode, first loop: the results of the sources that pass validation
RECURSIVE AppendFrames(_, _, _, _, _)
AppendFrames(st, fmap, bt, srcs, frames) ==
    IF srcs = <<>> THEN [st |-> st, frames |-> frames]
    ELSE LET l == LoadTableForTarget(st, fmap, Head(srcs))
             c == Called(l.st, bt, l.ref)
         IN  IF ~Validate(bt, l.st.heap[l.ref])
             THEN AppendFrames(c, fmap, bt, Tail(srcs), frames)
             ELSE LET e == Execute(c, bt, l.ref)
                  IN  IF e.st.raised THEN [st |-> e.st, frames |-> frames]
                      ELSE AppendFrames(e.st, fmap, bt, Tail(srcs), Append(frames, e.ref))

\* a copy of one result stored under every destination
RECURSIVE StoreCopies(_, _, _, _)
StoreCopies(st, fmap, dsts, ref) ==
    IF dsts = <<>> THEN st
    ELSE LET c == Copy(st, ref)
         IN  StoreCopies(StoreTableForTarget(c.st, fmap, Head(dsts), c.ref),
                         fmap, Tail(dsts), ref)

RunAppend(st, fmap, bt, srcs, dsts) ==
    LET a == AppendFrames(st, fmap, bt, srcs, <<>>)
    IN  IF a.st.raised \/ a.frames = <<>> THEN a.st
        ELSE LET combined == New(a.st, Concat([i \in DOMAIN a.frames |->
                                                   a.st.heap[a.frames[i]]]))
             IN  StoreCopies(combined.st, fmap, dsts, combined.ref)

RunBroadcast(st, fmap, bt, srcs, dsts) ==
    LET l == LoadTableForTarget(st, fmap, srcs[1])
        c == Called(l.st, bt, l.ref)
    IN  IF ~Validate(bt, l.st.heap[l.ref]) THEN c
        ELSE LET e == Execute(c, bt, l.ref)
             IN  IF e.st.raised THEN e.st ELSE StoreCopies(e.st, fmap, dsts, e.ref)

\* variant: an input that fails validation is stored under its destination
RECURSIVE RunPairs_StoresInvalid(_, _, _, _, _)
RunPairs_StoresInvalid(st, fmap, bt, srcs, dsts) ==
    IF srcs = <<>> THEN st
    ELSE LET l == LoadTableForTarget(st, fmap, Head(srcs))
             c == Called(l.st, bt, l.ref)
         IN  IF ~Validate(bt, l.st.heap[l.ref])
             THEN RunPairs_StoresInvalid(StoreTableForTarget(c, fmap, Head(dsts), l.ref),
                                         fmap, bt, Tail(srcs), Tail(dsts))
             ELSE LET e == Execute(c, bt, l.ref)
                  IN  IF e.st.raised THEN e.st
                      ELSE RunPairs_StoresInvalid(
                               StoreTableForTarget(e.st, fmap, Head(dsts), e.ref),
                               fmap, bt, Tail(srcs), Tail(dsts))

\* 1:1: the pairs in order, each result stored as it is
RECURSIVE RunPairs(_, _, _, _, _)
RunPairs(st, fmap, bt, srcs, dsts) ==
    IF srcs = <<>> THEN st
    ELSE LET l == LoadTableForTarget(st, fmap, Head(srcs))
             c == Called(l.st, bt, l.ref)
         IN  IF ~Validate(bt, l.st.heap[l.ref])
             THEN RunPairs(c, fmap, bt, Tail(srcs), Tail(dsts))
             ELSE LET e == Execute(c, bt, l.ref)
                  IN  IF e.st.raised THEN e.st
                      ELSE RunPairs(StoreTableForTarget(e.st, fmap, Head(dsts), e.ref),
                                    fmap, bt, Tail(srcs), Tail(dsts))

\* build_transform_config: the table of the node's lookupTarget (0 when
\* absent) is loaded, and so cached, when its file is among the inputs
BuildTransformConfig(st, fmap, node) ==
    IF node.lookupTarget # 0 /\ node.lookupTarget \in SeqSet(fmap)
    THEN LoadTable(st, fmap, node.lookupTarget).st
    ELSE st

\* the body of the loop over the nodes
RunNodeOn(st, fmap, node) ==
    LET n == Normalize(node)
        mode == WiringMode(n.sources, n.destinations)
        s0 == [BuildTransformConfig(st, fmap, node) EXCEPT !.wired = <<n.sources, n.destinations>>]
    IN  IF node.blockType \in SkipTypes THEN [st EXCEPT !.wired = <<>>]
        ELSE IF mode = "skip" THEN [st EXCEPT !.wired = <<>>]
        ELSE IF node.blockType \notin TransformIds
             THEN [st EXCEPT !.wired = <<n.sources, n.destinations>>]
        ELSE IF mode = "append"
             THEN RunAppend(s0, fmap, node.blockType, n.sources, n.destinations)
        ELSE IF mode = "broadcast"
             THEN RunBroadcast(s0, fmap, node.blockType, n.sources, n.destinations)
        ELSE IF mode = "pairs"
             THEN RunPairs(s0, fmap, node.blockType, n.sources, n.destinations)
        ELSE s0

\* execute_flow from the first node to the last
RECURSIVE RunNodes(_, _, _)
RunNodes(st, fmap, nodes) ==
    IF nodes = <<>> \/ st.raised THEN st
    ELSE RunNodes(RunNodeOn(st, fmap, Head(nodes)), fmap, Tail(nodes))

\* the caller's answer to an exception out of execute_flow:
\* HTTPException(status_code=400)
Failed == <<"HTTP 400">>

\* return table_map, last_table_key; nothing is returned when the loop raised
ReturnValue(st) ==
    IF st.raised THEN Failed
    ELSE <<[k \in {x \in TableKeys : st.tm[x] # 0} |-> st.heap[st.tm[k]]], st.last>>

execute_flow(fmap, nodes) == ReturnValue(RunNodes(EngStart, fmap, nodes))

----------------------------------------------------------------------------
(* Executions of execute_flow, node by node *)

F1 == Target("", 1)
F2 == Target("", 2)
V1 == Target("v1", 0)
V2 == Target("v2", 0)
Bare == Target("", 0)      \* a target that names a sheet only
Both == Target("v1", 2)    \* a target that carries a virtual id and a file id

Node(bt, srcs, dsts, target, destination) ==
    [blockType |-> bt, sourceTargets |-> srcs, destinationTargets |-> dsts,
     target |-> target, destination |-> destination, lookupTarget |-> 0]

\* the node with data.lookupTarget = {fileId: fid}
WithLookup(node, fid) == [node EXCEPT !.lookupTarget = fid]

\* two sources and three destinations: none of the three wiring modes
Mismatched(bt) == Node(bt, <<F1, F2>>, <<V1, V2, F1>>, <<>>, <<>>)

SourceLists == {<<>>, <<F1>>, <<Bare>>, <<V1>>, <<Both>>, <<F1, F2>>, <<F2, V1>>}
DestLists == {<<>>, <<V1>>, <<F1>>, <<V1, V2>>, <<V2, F2>>, <<Bare>>}

\* the nodes of the documents: list-based nodes, nodes with the legacy
\* single target / destination fields (<<>> when the field is absent), an
\* output declaration, a block type the registry does not know, nodes whose
\* counts fit no wiring mode and nodes with a lookup target
EngNodes ==
    {Node(bt, s, d, <<>>, <<>>) : bt \in TransformIds, s \in SourceLists, d \in DestLists}
    \cup {Node(bt, <<>>, <<>>, t, d) :
            bt \in TransformIds, t \in {<<>>, <<F1>>, <<Bare>>}, d \in {<<>>, <<V2>>}}
    \cup {Node("output", <<>>, <<>>, <<>>, <<>>), Node("unknown", <<F1>>, <<V1>>, <<>>, <<>>)}
    \cup {Mismatched(bt) : bt \in TransformIds}
    \cup {WithLookup(Mismatched("rename_columns"), 2),
          WithLookup(Node("rename_columns", <<F1>>, <<V1>>, <<>>, <<>>), 2)}

EngDocs == {<<n>> : n \in EngNodes} \cup {<<n, m>> : n \in EngNodes, m \in EngNodes}

\* file_paths_by_id, by the order in which its ids are enumerated
FileMaps == {<<>>, <<1>>, <<1, 2>>, <<2, 1>>}

NotReturned == <<>>

EngInit ==
    /\ eng_files \in FileMaps
    /\ eng_nodes \in EngDocs
    /\ eng_pc = 1
    /\ eng_st = EngStart
    /\ eng_result = NotReturned

EngIdle ==
    /\ eng_files = <<>>
    /\ eng_nodes = <<>>
    /\ eng_pc = 0
    /\ eng_st = EngStart
    /\ eng_result = NotReturned

\* one iteration of `for node in nodes`
RunNode ==
    /\ eng_pc \in DOMAIN eng_nodes
    /\ ~eng_st.raised
    /\ eng_st' = RunNodeOn(eng_st, eng_files, eng_nodes[eng_pc])
    /\ eng_pc' = eng_pc + 1
    /\ UNCHANGED <<eng_files, eng_nodes, eng_result>>
    /\ UNCHANGED non_eng_vars

\* return table_map, last_table_key
Return ==
    /\ eng_pc = Len(eng_nodes) + 1
    /\ ~eng_st.raised
    /\ eng_result = NotReturned
    /\ eng_result' = ReturnValue(eng_st)
    /\ UNCHANGED <<eng_files, eng_nodes, eng_pc, eng_st>>
    /\ UNCHANGED non_eng_vars

\* variant: the loop is left with what was computed so far
Fail_ReturnsPartial ==
    /\ eng_st.raised
    /\ eng_result = NotReturned
    /\ eng_result' = ReturnValue([eng_st EXCEPT !.raised = FALSE])
    /\ UNCHANGED <<eng_files, eng_nodes, eng_pc, eng_st>>
    /\ UNCHANGED non_eng_vars

\* the exception leaves execute_flow and the route answers it
Fail ==
    /\ eng_st.raised
    /\ eng_result = NotReturned
    /\ eng_result' = Failed
    /\ UNCHANGED <<eng_files, eng_nodes, eng_pc, eng_st>>
    /\ UNCHANGED non_eng_vars

EngNext == RunNode \/ Return \/ Fail

----------------------------------------------------------------------------
(* The orphan sweep (cleanup_orphaned_files_job) and one request, a DELETE
   /files/{id} or a POST /flows, statement by statement.  The sweep runs on a thread of the background
   scheduler with a session of its own, the route on the event loop; each
   query reads what is committed, each commit writes the session's deletions.
   One instance of the job runs at a time. *)

MaxRuns == 2        \* the interval trigger fires the sweep up to MaxRuns times

\* variant: every file of the user counts as orphaned
GetOrphanedFiles_AllFiles(db, u) == {i \in DOMAIN db.files : db.files[i].user_id = u}

\* FileReferenceService.get_orphaned_files
GetOrphanedFiles(db, u) ==
    LET all_files == {i \in DOMAIN db.files : db.files[i].user_id = u}
        referenced_file_ids ==
            UNION {FilesForFlow(db.flows[f]) : f \in {g \in DOMAIN db.flows : db.flows[g].user_id = u}}
    IN  all_files \ referenced_file_ids

\* the documents of the flows the sweep meets: one node with a fileIds list
JobDocs == {DocOf(<<NodeOf(PyDict([fileIds |-> IdList(S)]))>>) : S \in {{}, {1}, {2}}}

\* the records and the directory before anything was created
GcStart ==
    [flows |-> [f \in FlowIdSet |-> NoFlow], files |-> [i \in GcFileIds |-> NoFile],
     batches |-> [b \in BatchIds |-> NoBatch], disk |-> {}]

SweepIdle ==
    [pc |-> "idle", run |-> 0, users |-> {}, user |-> 0, orphaned |-> {}, cur |-> 0,
     marked |-> {}, found |-> {}, removed |-> {}, unlinked |-> {}, failed |-> {},
     db0 |-> GcStart, req0 |-> "idle"]

ReqIdle == [pc |-> "idle", user |-> 0, file |-> 0, status |-> "none"]

JobInit == sweep = SweepIdle /\ req = ReqIdle
JobIdle == JobInit

\* before the first sweep and the request, users create flows and upload files
InSetup == sweep.pc = "idle" /\ sweep.run = 0 /\ req.pc = "idle"

JobCreateFlow == InSetup /\ \E u \in Users, doc \in JobDocs : CreateFlow(u, doc)

JobUploadFile == InSetup /\ \E u \in Users : UploadFile(u, 0)

\* the job starts: all_files = db.query(File).all(), grouped by user
SweepStart ==
    /\ sweep.pc \in {"idle", "done"}
    /\ sweep.run < MaxRuns
    /\ sweep' = [SweepIdle EXCEPT
                    !.run = sweep.run + 1,
                    !.pc = IF \A i \in GcFileIds : files[i] = NoFile THEN "done" ELSE "user",
                    !.users = {files[i].user_id : i \in {j \in GcFileIds : files[j] # NoFile}},
                    !.db0 = DB,
                    !.req0 = req.pc]
    /\ UNCHANGED <<req, gc_vars, other_vars>>

\* the next user of the loop: orphaned_files = get_orphaned_files(user_id, db)
SweepUser ==
    /\ sweep.pc = "user"
    /\ \E u \in sweep.users :
          LET orphaned_files == GetOrphanedFiles(DB, u) IN
          sweep' = [sweep EXCEPT !.user = u,
                                 !.users = @ \ {u},
                                 !.orphaned = orphaned_files,
                                 !.found = @ \cup orphaned_files,
                                 !.pc = IF orphaned_files = {} THEN "user" ELSE "exists"]
    /\ UNCHANGED <<req, gc_vars, other_vars>>

\* where the loop over orphaned_files goes after a file
AfterFile(rest) == IF rest = {} THEN "commit" ELSE "exists"

\* storage.delete_file, file_path.exists(): a missing path returns False and
\* db.delete(file) follows
SweepExists ==
    /\ sweep.pc = "exists"
    /\ \E i \in sweep.orphaned :
          sweep' = IF i \in disk
                   THEN [sweep EXCEPT !.cur = i, !.pc = "unlink"]
                   ELSE [sweep EXCEPT !.cur = i,
                                      !.orphaned = @ \ {i},
                                      !.marked = @ \cup {i},
                                      !.pc = AfterFile(sweep.orphaned \ {i})]
    /\ UNCHANGED <<req, gc_vars, other_vars>>

\* storage.delete_file, file_path.unlink(), then db.delete(file); unlink
\* raises FileNotFoundError when the path is gone by now, which the job
\* catches and logs, leaving the record unmarked
SweepUnlink ==
    /\ sweep.pc = "unlink"
    /\ disk' = disk \ {sweep.cur}
    /\ sweep' = IF sweep.cur \in disk
                THEN [sweep EXCEPT !.orphaned = @ \ {sweep.cur},
                                   !.marked = @ \cup {sweep.cur},
                                   !.unlinked = @ \cup {sweep.cur},
                                   !.pc = AfterFile(sweep.orphaned \ {sweep.cur})]
                ELSE [sweep EXCEPT !.orphaned = @ \ {sweep.cur},
                                   !.failed = @ \cup {sweep.cur},
                                   !.pc = AfterFile(sweep.orphaned \ {sweep.cur})]
    /\ UNCHANGED <<req, flows, files, batches, next_id, gc_op, gc_removed, other_vars>>

\* db.commit() after a user's files: the DELETE of a row that is gone
\* matches no row, which the ORM reports as a warning
SweepCommit ==
    /\ sweep.pc = "commit"
    /\ files' = [i \in GcFileIds |-> IF i \in sweep.marked THEN NoFile ELSE files[i]]
    /\ sweep' = [sweep EXCEPT !.removed = @ \cup {i \in sweep.marked : files[i] # NoFile},
                              !.marked = {},
                              !.pc = "user"]
    /\ UNCHANGED <<req, flows, batches, disk, next_id, gc_op, gc_removed, other_vars>>

\* the loop over the users is over: the job logs and closes its session
SweepFinish ==
    /\ sweep.pc = "user"
    /\ sweep.users = {}
    /\ sweep' = [sweep EXCEPT !.pc = "done"]
    /\ UNCHANGED <<req, gc_vars, other_vars>>

\* DELETE /files/{file_id} arrives once the first sweep was triggered: the
\* file is looked up among the user's files (404 when there is none) and the
\* id is removed from the documents of the session's flows
ReqStart ==
    /\ req.pc = "idle"
    /\ sweep.run > 0
    /\ \E u \in Users, i \in GcFileIds :
          req' = IF files[i].user_id = u
                 THEN [pc |-> "exists", user |-> u, file |-> i, status |-> "running"]
                 ELSE [pc |-> "done", user |-> u, file |-> i, status |-> "not_found"]
    /\ UNCHANGED <<sweep, gc_vars, other_vars>>

\* storage.delete_file, file_path.exists()
ReqExists ==
    /\ req.pc = "exists"
    /\ req' = [req EXCEPT !.pc = IF req.file \in disk THEN "unlink" ELSE "commit"]
    /\ UNCHANGED <<sweep, gc_vars, other_vars>>

\* storage.delete_file, file_path.unlink(): FileNotFoundError is not caught
\* by the route, the request ends with a server error and its session is
\* rolled back
ReqUnlink ==
    /\ req.pc = "unlink"
    /\ disk' = disk \ {req.file}
    /\ req' = IF req.file \in disk
              THEN [req EXCEPT !.pc = "commit"]
              ELSE [req EXCEPT !.pc = "done", !.status = "error"]
    /\ UNCHANGED <<sweep, flows, files, batches, next_id, gc_op, gc_removed, other_vars>>

\* db.delete(db_file); db.commit(): the stripped documents and the deletion
ReqCommit ==
    /\ req.pc = "commit"
    /\ flows' = StripFromFlows(flows, req.user, {req.file})
    /\ files' = [files EXCEPT ![req.file] = NoFile]
    /\ req' = [req EXCEPT !.pc = "done", !.status = "ok"]
    /\ UNCHANGED <<sweep, batches, disk, next_id, gc_op, gc_removed, other_vars>>

\* POST /flows arrives instead, once the first sweep was triggered: the flow
\* is added and committed in one step, whatever file ids its document names
ReqCreateFlow ==
    /\ req.pc = "idle"
    /\ sweep.run > 0
    /\ next_id.flow \in FlowIdSet
    /\ \E u \in Users, doc \in JobDocs :
          /\ flows' = [flows EXCEPT ![next_id.flow] = [user_id |-> u, flow_data |-> doc]]
          /\ req' = [pc |-> "done", user |-> u, file |-> 0, status |-> "created"]
    /\ next_id' = [next_id EXCEPT !.flow = @ + 1]
    /\ UNCHANGED <<sweep, files, batches, disk, gc_op, gc_removed, other_vars>>

\* the server process dies while the job or the request is at work: what
\* their sessions had not committed is lost
Crash ==
    /\ sweep.pc \in {"user", "exists", "unlink", "commit"}
          \/ req.pc \in {"exists", "unlink", "commit"}
    /\ sweep' = IF sweep.pc \in {"idle", "done"} THEN sweep
                ELSE [sweep EXCEPT !.pc = "crashed", !.marked = {}]
    /\ req' = IF req.pc \in {"idle", "done"} THEN req ELSE [req EXCEPT !.pc = "crashed"]
    /\ UNCHANGED <<gc_vars, other_vars>>

JobNext ==
    \/ JobCreateFlow \/ JobUploadFile
    \/ SweepStart \/ SweepUser \/ SweepExists \/ SweepUnlink \/ SweepCommit \/ SweepFinish
    \/ ReqStart \/ ReqExists \/ ReqUnlink \/ ReqCommit \/ ReqCreateFlow
    \/ Crash

----------------------------------------------------------------------------
(* create_zip_archive.  A name is a sequence of one-character strings; the
   archive is the sequence of its entry names, in the order written. *)

MaxNameLen == 2     \* longest batch name of the palette
MaxPayload == 2     \* most files in files_payload

\* ord() of the characters that occur in the pattern and in the names
Ord(c) ==
    CASE c = " " -> 32 [] c = "-" -> 45 [] c = "/" -> 47 [] c = "0" -> 48
      [] c = "7" -> 55 [] c = "9" -> 57 [] c = ":" -> 58 [] c = "A" -> 65
      [] c = "Z" -> 90 [] c = "\\" -> 92 [] c = "_" -> 95 [] c = "a" -> 97
      [] c = "z" -> 122

\* the characters between "[^" and "]" of the pattern in export_utils.py,
\* r'[^a-zA-Z0-9_\\- ]': the raw string holds two backslashes
SourceClass == <<"a", "-", "z", "A", "-", "Z", "0", "-", "9", "_", "\\", "\\", "-", " ">>

\* the same of the copy in test_export_logic.py, r'[^a-zA-Z0-9_\- ]'
TestClass == <<"a", "-", "z", "A", "-", "Z", "0", "-", "9", "_", "\\", "-", " ">>

\* one item of a character class: a backslash escapes the next character
ItemAt(src, i) ==
    IF src[i] = "\\" THEN [code |-> Ord(src[i + 1]), next |-> i + 2]
    ELSE [code |-> Ord(src[i]), next |-> i + 1]

\* re's parser on the body of a character class: the set of [lo, hi] ranges
\* of the class, or the error "bad character range" when a range runs
\* backwards
RECURSIVE ParseClass(_, _, _)
ParseClass(src, i, acc) ==
    IF i > Len(src) THEN [error |-> FALSE, ranges |-> acc]
    ELSE LET code1 == ItemAt(src, i) IN
         IF code1.next <= Len(src) /\ src[code1.next] = "-"
         THEN IF code1.next = Len(src)
              THEN [error |-> FALSE,
                    ranges |-> acc \cup {[lo |-> code1.code, hi |-> code1.code],
                                         [lo |-> Ord("-"), hi |-> Ord("-")]}]
              ELSE LET code2 == ItemAt(src, code1.next + 1) IN
                   IF code2.code < code1.code THEN [error |-> TRUE, ranges |-> {}]
                   ELSE ParseClass(src, code2.next,
                                   acc \cup {[lo |-> code1.code, hi |-> code2.code]})
         ELSE ParseClass(src, code1.next, acc \cup {[lo |-> code1.code, hi |-> code1.code]})

InClass(ranges, c) == \E r \in ranges : r.lo <= Ord(c) /\ Ord(c) <= r.hi

\* str.strip() of a name whose only whitespace is the space
RECURSIVE Strip(_)
Strip(name) ==
    IF name = <<>> THEN name
    ELSE IF Head(name) = " " THEN Strip(Tail(name))
    ELSE IF name[Len(name)] = " " THEN Strip(SubSeq(name, 1, Len(name) - 1))
    ELSE name

\* re.sub(pattern, '_', name).strip() for a negated class: compiling the
\* pattern comes first and may raise
SafeBatchName(class, name) ==
    LET compiled == ParseClass(class, 1, {}) IN
    IF compiled.error THEN [raised |-> TRUE, name |-> <<>>]
    ELSE [raised |-> FALSE,
          name |-> Strip([k \in DOMAIN name |->
                            IF InClass(compiled.ranges, name[k]) THEN name[k] ELSE "_"])]

NoOutputBatch == <<"None">>

\* the loop over files_payload from entry k on: an exception of re.sub
\* leaves the function
RECURSIVE WriteEntries(_, _, _, _, _, _)
WriteEntries(class, files_payload, folder, batch_name, k, names) ==
    IF k > Len(files_payload) THEN [raised |-> FALSE, names |-> names]
    ELSE IF ~folder THEN WriteEntries(class, files_payload, folder, batch_name, k + 1,
                                      Append(names, files_payload[k]))
    ELSE LET safe == SafeBatchName(class, batch_name) IN
         IF safe.raised THEN [raised |-> TRUE, names |-> <<>>]
         ELSE WriteEntries(class, files_payload, folder, batch_name, k + 1,
                           Append(names, safe.name \o <<"/">> \o files_payload[k]))

\* create_zip_archive(files_payload, output_batch): the namelist of the
\* returned archive; a FileBatch object is truthy whatever its name
create_zip_archive(files_payload, output_batch) ==
    WriteEntries(SourceClass, files_payload, output_batch # NoOutputBatch, output_batch, 1, <<>>)

\* create_zip_payload of the test module: it takes the name itself, and an
\* empty name is falsy
create_zip_payload(files_payload, output_batch_name) ==
    WriteEntries(TestClass, files_payload,
                 output_batch_name # NoOutputBatch /\ output_batch_name # <<>>,
                 output_batch_name, 1, <<>>)

NameChars == {"a", "Z", "7", "_", "-", " ", "/", ":"}
BatchNames == UNION {[1..n -> NameChars] : n \in 0..MaxNameLen}
FileNames == {<<"f">>, <<"g">>}
Payloads == UNION {[1..n -> FileNames] : n \in 0..MaxPayload}

NotCalled == [raised |-> FALSE, names |-> <<<<"?">>>>]

ZipInit ==
    /\ zip_in \in [files_payload : Payloads, batch : BatchNames \cup {NoOutputBatch}]
    /\ zip_out = [source |-> NotCalled, test |-> NotCalled]

ZipIdle ==
    /\ zip_in = [files_payload |-> <<>>, batch |-> NoOutputBatch]
    /\ zip_out = [source |-> NotCalled, test |-> NotCalled]

CallCreateZipArchive ==
    /\ zip_out.source = NotCalled
    /\ zip_out' = [zip_out EXCEPT !.source = create_zip_archive(zip_in.files_payload, zip_in.batch)]
    /\ UNCHANGED <<zip_in, non_zip_vars>>

CallCreateZipPayload ==
    /\ zip_out.test = NotCalled
    /\ zip_out' = [zip_out EXCEPT !.test = create_zip_payload(zip_in.files_payload, zip_in.batch)]
    /\ UNCHANGED <<zip_in, non_zip_vars>>

ZipNext == CallCreateZipArchive \/ CallCreateZipPayload

----------------------------------------------------------------------------
(* Storage failures during DELETE /flows/{id} and DELETE /files/batches/{id}.
   storage.delete_file tests file_path.exists() and then calls unlink(); for
   a path that exists the unlink succeeds, or raises FileNotFoundError (the
   path went away in between), or raises another OSError (the path stays). *)

Faults == [GcFileIds -> {"ok", "not_found", "denied"}]

NoFault == [i \in GcFileIds |-> "ok"]

\* storage.delete_file for file i: the directory afterwards and the exception
StorageDeleteFile(dsk, i, fault) ==
    IF i \notin dsk \/ fault[i] = "ok" THEN [disk |-> dsk \ {i}, raised |-> "none"]
    ELSE IF fault[i] = "not_found" THEN [disk |-> dsk \ {i}, raised |-> "FileNotFoundError"]
    ELSE [disk |-> dsk, raised |-> "OSError"]

\* variant: the exception of storage.delete_file is not caught; the session
\* is rolled back and only the bytes unlinked before it are gone
DeleteBatchSvcF_Uncaught(db, u, b, fault) ==
    LET fids == FilesInBatch(db, b)
        raising == {i \in fids : StorageDeleteFile(db.disk, i, fault).raised # "none"}
        stripped == [db EXCEPT !.flows = StripFromFlows(@, u, fids)]
    IN  IF raising = {}
        THEN [DropFiles(stripped, fids) EXCEPT !.batches[b] = NoBatch]
        ELSE [db EXCEPT !.disk = @ \ {i \in fids : i < Min(raising)}]

\* FileService.delete_batch, and the same loop in the delete_batch route:
\* an exception of storage.delete_file is printed and db.delete(file) follows
DeleteBatchSvcF(db, u, b, fault) ==
    LET fids == FilesInBatch(db, b)
        stripped == [db EXCEPT !.flows = StripFromFlows(@, u, fids)]
    IN  [stripped EXCEPT
            !.files = [i \in DOMAIN @ |-> IF i \in fids THEN NoFile ELSE @[i]],
            !.disk = {i \in @ : i \notin fids \/ i \in StorageDeleteFile(db.disk, i, fault).disk},
            !.batches[b] = NoBatch]

\* delete_flow step 1.5 under faults
RECURSIVE DeleteBatchesF(_, _, _, _)
DeleteBatchesF(db, u, bs, fault) ==
    IF bs = {} THEN db
    ELSE DeleteBatchesF(DeleteBatchSvcF(db, u, Min(bs), fault), u, bs \ {Min(bs)}, fault)

\* delete_flow step 3 under faults
RECURSIVE CleanupBatchesF(_, _, _, _)
CleanupBatchesF(db, u, todo, fault) ==
    IF todo = {} THEN [db |-> db, raised |-> FALSE]
    ELSE LET b == Min(todo) IN
         IF db.batches[b] = NoBatch
            \/ \E i \in FilesInBatch(db, b) : IsFileReferenced(db, i, u, 0)
         THEN CleanupBatchesF(db, u, todo \ {b}, fault)
         ELSE IF db.batches[b].user_id # u
              THEN [db |-> db, raised |-> TRUE]
              ELSE CleanupBatchesF(DeleteBatchSvcF(db, u, b, fault), u, todo \ {b}, fault)

\* variant: every exception of step 4 is logged and the loop goes on
RECURSIVE DeleteOrphansF_LogsAll(_, _, _, _, _, _)
DeleteOrphansF_LogsAll(cur, base, u, todo, fault, log) ==
    IF todo = {} THEN [db |-> cur, rolled_back |-> FALSE, log |-> log]
    ELSE LET i == Min(todo)
             r == StorageDeleteFile(cur.disk, i, fault)
             entry == [file |-> i, raised |-> r.raised]
         IN  IF IsFileReferenced(cur, i, u, 0) \/ base.files[i].user_id # u
             THEN DeleteOrphansF_LogsAll(cur, base, u, todo \ {i}, fault, log)
             ELSE IF r.raised = "none"
                  THEN DeleteOrphansF_LogsAll(DropFiles(cur, {i}), base, u, todo \ {i}, fault,
                                              Append(log, entry))
             ELSE DeleteOrphansF_LogsAll([cur EXCEPT !.disk = r.disk], base, u, todo \ {i},
                                         fault, Append(log, entry))

\* delete_flow step 4: the captured ids in turn.  cur is the session (with
\* what step 3 marked), base what step 2 committed; the file query does not
\* flush, so it finds the rows of base.  FileNotFoundError is logged and the
\* loop goes on; any other exception rolls the session back and ends the loop
RECURSIVE DeleteOrphansF(_, _, _, _, _, _)
DeleteOrphansF(cur, base, u, todo, fault, log) ==
    IF todo = {} THEN [db |-> cur, rolled_back |-> FALSE, log |-> log]
    ELSE LET i == Min(todo)
             r == StorageDeleteFile(cur.disk, i, fault)
             entry == [file |-> i, raised |-> r.raised]
         IN  IF IsFileReferenced(cur, i, u, 0) \/ base.files[i].user_id # u
             THEN DeleteOrphansF(cur, base, u, todo \ {i}, fault, log)
             ELSE IF r.raised = "none"
                  THEN DeleteOrphansF(DropFiles(cur, {i}), base, u, todo \ {i}, fault,
                                      Append(log, entry))
             ELSE IF r.raised = "FileNotFoundError"
                  THEN DeleteOrphansF([cur EXCEPT !.disk = r.disk], base, u, todo \ {i}, fault,
                                      Append(log, entry))
             ELSE [db |-> [base EXCEPT !.disk = cur.disk], rolled_back |-> TRUE,
                   log |-> Append(log, entry)]

\* the response of delete_flow once step 3 (r3) and step 4 (r4) have run on
\* what step 2 committed (s2): an exception of step 3 leaves the route
DeleteFlowResultF(s2, r3, r4) ==
    IF r3.raised
    THEN [db |-> [s2 EXCEPT !.disk = r3.db.disk], status |-> "error",
          rolled_back |-> TRUE, log |-> <<>>]
    ELSE [db |-> r4.db, status |-> "ok", rolled_back |-> r4.rolled_back, log |-> r4.log]

\* steps 4 and 3 of delete_flow, each on the outcome of the step before
DeleteFlowStep4F(s2, r3, u, ids, fault) ==
    DeleteFlowResultF(s2, r3, DeleteOrphansF(r3.db, s2, u, ids, fault, <<>>))

DeleteFlowStep3F(s2, u, bs, ids, fault) ==
    DeleteFlowStep4F(s2, CleanupBatchesF(s2, u, bs, fault), u, ids, fault)

\* the batches of the files a flow names
BatchesOfFiles(db, ids) ==
    {db.files[i].batch_id : i \in {j \in ids \cap DOMAIN db.files : db.files[j].batch_id # 0}}

\* the batches created inside flow f
FlowBatchIds(db, f) == {b \in DOMAIN db.batches : db.batches[b].flow_id = f}

\* delete_flow under faults: what is left, whether step 4 rolled back, and
\* the files step 4 called the storage for, with the exception each met
DeleteFlowOnF(db, u, f, fault, file_ids_in_flow, flow_batch_ids) ==
    DeleteFlowStep3F([DeleteBatchesF(db, u, flow_batch_ids, fault) EXCEPT !.flows[f] = NoFlow],
                     u, BatchesOfFiles(db, file_ids_in_flow) \ flow_batch_ids,
                     file_ids_in_flow \cap DOMAIN db.files, fault)

DeleteFlowF(db, u, f, fault) ==
    DeleteFlowOnF(db, u, f, fault, FilesForFlow(db.flows[f]), FlowBatchIds(db, f))

\* the documents of the flows: one node that lists files in fileIds
FaultDocs == {DocOf(<<NodeOf(PyDict([fileIds |-> IdList(S)]))>>) : S \in {{2}, {1, 2}}}

NoRequest ==
    [route |-> "none", user |-> 0, id |-> 0, fault |-> NoFault, before |-> GcStart,
     status |-> "none", rolled_back |-> FALSE, log |-> <<>>]

FaultInit == fault_op = NoRequest
FaultIdle == FaultInit

\* before the request under study, flows and batches are created and files
\* uploaded
FltCreateFlow ==
    fault_op.route = "none" /\ \E u \in Users, doc \in FaultDocs : CreateFlow(u, doc)

FltCreateBatch == fault_op.route = "none" /\ \E u \in Uploaders : CreateBatch(u)

FltCreateFlowBatch ==
    fault_op.route = "none" /\ \E u \in Uploaders, fl \in FlowIdSet : CreateFlowBatch(u, fl)

FltUploadFile ==
    fault_op.route = "none" /\ \E u \in Uploaders, b \in {0} \cup BatchIds : UploadFile(u, b)

\* DELETE /files/batches/{batch_id} while the storage fails as in fault
FltDeleteBatch ==
    /\ fault_op.route = "none"
    /\ \E u \in Users, b \in BatchIds, fault \in Faults :
          /\ batches[b].user_id = u
          /\ Commit(DeleteBatchSvcF(DB, u, b, fault))
          /\ fault_op' = [NoRequest EXCEPT !.route = "delete_batch", !.user = u, !.id = b,
                                           !.fault = fault, !.before = DB, !.status = "ok"]
    /\ gc_op' = "delete_batch"
    /\ UNCHANGED next_id
    /\ UNCHANGED non_fault_vars

\* the final commit of delete_flow and the record of the request
CommitDeleteFlowF(r, u, f, fault) ==
    /\ Commit(r.db)
    /\ fault_op' = [route |-> "delete_flow", user |-> u, id |-> f,
                    fault |-> fault, before |-> DB, status |-> r.status,
                    rolled_back |-> r.rolled_back, log |-> r.log]

\* DELETE /flows/{flow_id} while the storage fails as in fault
FltDeleteFlow ==
    /\ fault_op.route = "none"
    /\ \E u \in Users, f \in FlowIdSet, fault \in Faults :
          /\ flows[f].user_id = u
          /\ CommitDeleteFlowF(DeleteFlowF(DB, u, f, fault), u, f, fault)
    /\ gc_op' = "delete_flow"
    /\ UNCHANGED next_id
    /\ UNCHANGED non_fault_vars

FaultNext ==
    \/ FltCreateFlow \/ FltCreateBatch \/ FltCreateFlowBatch \/ FltUploadFile
    \/ FltDeleteBatch \/ FltDeleteFlow

----------------------------------------------------------------------------
(* Specifications *)

vars == <<ref_vars, cache_vars, gc_vars, conc_vars, fp_vars, eng_vars, job_vars, zip_vars,
         fault_vars>>

\* the extractor and the remover applied to every generated document
InitRef == RefInit /\ CacheIdle /\ GcIdle /\ ConcIdle /\ FpIdle /\ EngIdle /\ JobIdle /\ ZipIdle /\ FaultIdle
SpecRef == InitRef /\ [][RefNext]_vars

\* the preview cache under get, set and the passing of time
InitCache == CacheInit /\ RefIdle /\ GcIdle /\ ConcIdle /\ FpIdle /\ EngIdle /\ JobIdle /\ ZipIdle /\ FaultIdle
SpecCache == InitCache /\ [][CacheNext]_vars

\* the same cache, with sets that note whether they replaced an entry
InitOverwrite == CacheInit /\ RefIdle /\ GcIdle /\ ConcIdle /\ FpIdle /\ EngIdle /\ JobIdle /\ ZipIdle /\ FaultIdle
SpecOverwrite == InitOverwrite /\ [][OverwriteNext]_vars

\* the flow, file and batch routes over the records and the upload directory
Init == GcInit /\ RefIdle /\ CacheIdle /\ ConcIdle /\ FpIdle /\ EngIdle /\ JobIdle /\ ZipIdle /\ FaultIdle
Next == GcNext
Spec == Init /\ [][Next]_vars

\* get and set of the shared cache, statement by statement, on two threads
InitConc == ConcInit /\ RefIdle /\ CacheIdle /\ GcIdle /\ FpIdle /\ EngIdle /\ JobIdle /\ ZipIdle /\ FaultIdle
SpecConc == InitConc /\ [][ConcNext]_vars

\* the cache key computed for two requests
InitFp == FpInit /\ RefIdle /\ CacheIdle /\ GcIdle /\ ConcIdle /\ EngIdle /\ JobIdle /\ ZipIdle /\ FaultIdle
SpecFp == InitFp /\ [][FpNext]_vars

\* execute_flow on every document and file map of the palette
InitEngine == EngInit /\ RefIdle /\ CacheIdle /\ GcIdle /\ ConcIdle /\ FpIdle /\ JobIdle /\ ZipIdle /\ FaultIdle
SpecEngine == InitEngine /\ [][EngNext]_vars

\* the sweep, twice, with one user delete in between or alongside
InitJob == JobInit /\ GcInit /\ RefIdle /\ CacheIdle /\ ConcIdle /\ FpIdle /\ EngIdle /\ ZipIdle /\ FaultIdle
SpecJob == InitJob /\ [][JobNext]_vars

\* create_zip_archive and the test module's copy on every payload and name
InitZip == ZipInit /\ GcIdle /\ RefIdle /\ CacheIdle /\ ConcIdle /\ FpIdle /\ EngIdle /\ JobIdle /\ FaultIdle
SpecZip == InitZip /\ [][ZipNext]_vars

\* one delete_batch or delete_flow request met by storage failures
InitFault == FaultInit /\ GcInit /\ RefIdle /\ CacheIdle /\ ConcIdle /\ FpIdle /\ EngIdle /\ JobIdle
             /\ ZipIdle
SpecFault == InitFault /\ [][FaultNext]_vars

----------------------------------------------------------------------------
(* Claims about the reference extractor and the remover (SpecRef) *)

\* the documented reference sites of one node: data.fileIds, data.target,
\* data.lookupTarget, data.mappingTargets[*], data.output.sheets[*].source
SiteIdsOfList(lst) ==
    IF IsList(lst)
    THEN UNION {ExtractFromTarget(lst.v[i]) : i \in DOMAIN lst.v}
    ELSE {}

SiteIdsOfSheets(output) ==
    IF IsDict(output) /\ IsList(Get(output, "sheets", EmptyList))
    THEN LET sheets == Get(output, "sheets", EmptyList).v
         IN  UNION {IF IsDict(sheets[i]) THEN ExtractFromTarget(Get(sheets[i], "source", PyNone))
                    ELSE {} : i \in DOMAIN sheets}
    ELSE {}

DocumentedRefsOfNode(node) ==
    IF IsDict(node) /\ IsDict(Get(node, "data", EmptyDict))
    THEN LET data == Get(node, "data", EmptyDict)
         IN  ExtractFromFileIdsList(Get(data, "fileIds", EmptyList))
             \cup ExtractFromTarget(Get(data, "target", PyNone))
             \cup ExtractFromTarget(Get(data, "lookupTarget", PyNone))
             \cup SiteIdsOfList(Get(data, "mappingTargets", PyNone))
             \cup SiteIdsOfSheets(Get(data, "output", PyNone))
    ELSE {}

DocumentedRefs(fd) ==
    IF IsDict(fd) /\ IsList(Get(fd, "nodes", EmptyList))
    THEN UNION {DocumentedRefsOfNode(Get(fd, "nodes", EmptyList).v[i]) :
                    i \in DOMAIN Get(fd, "nodes", EmptyList).v}
    ELSE {}

\* C3: extract_file_ids(D) is exactly the set of integer ids found at the
\* documented reference sites of D (fileIds, target, lookupTarget, every
\* mappingTargets entry, every legacy output sheet source).
C3_ExtractIsExactlyDocumentedSites ==
    ref_pc = "extracted" => file_ids = DocumentedRefs(flow_data)

\* C4: after remove_file_id(D, i), extract_file_ids of the returned document
\* does not contain i.
C4_RemovedIdNotExtracted ==
    ref_pc = "reextracted" => file_id \notin file_ids

\* the id was extracted from the document before it was removed
C4_Witness ==
    /\ ref_pc = "reextracted"
    /\ changed
    /\ file_id \in ExtractFileIds(flow_data)
    /\ file_ids # {}

----------------------------------------------------------------------------
(* Claims about the preview cache (SpecCache) *)

\* a step that is a get call / a set call (Tick leaves cache_op alone,
\* advances the clock and never makes last_set.ts equal to the clock)
IsGetStep == cache_op'.op = "get" /\ now' = now
IsSetStep == cache_op'.op = "set" /\ last_set'.ts = now'

\* C8: with max_entries >= 1, a get(k) that follows set(k, v) with no other
\* set in between and at most TTL later returns v.
C8_SetThenGet ==
    [][(/\ IsGetStep
        /\ max_entries >= 1
        /\ cache_op'.key = last_set.key
        /\ now - last_set.ts <= ttl_seconds)
       => cache_op'.result = last_set.value]_vars

\* a hit on the key of the last set, some time after the set
C8_Witness ==
    /\ cache_op.op = "get"
    /\ cache_op.key = last_set.key
    /\ cache_op.result = last_set.value
    /\ now > last_set.ts
    /\ Len(entries) = max_entries

\* C9: every get and set purges all entries older than the TTL, and get(k)
\* returns absent once more than the TTL has passed since the last set of k,
\* whatever hits happened in between.
C9_ExpiryNotRefreshedByHits ==
    [][/\ (IsGetStep \/ IsSetStep) =>
              \A i \in DOMAIN entries' : ~(now - entries'[i].ts > ttl_seconds)
       /\ (IsGetStep /\ (set_ts[cache_op'.key] = NoTime
                         \/ now - set_ts[cache_op'.key] > ttl_seconds))
              => cache_op'.result = Absent]_vars

\* a miss on a key that was set and has expired, while a younger entry lives
C9_Witness ==
    /\ cache_op.op = "get"
    /\ cache_op.result = Absent
    /\ set_ts[cache_op.key] # NoTime
    /\ now - set_ts[cache_op.key] > ttl_seconds
    /\ entries # <<>>

\* the keys present whose last set is no older than the TTL
LiveKeys == {k \in KeysOf(entries) : ~(now - set_ts[k] > ttl_seconds)}

\* the least recently used (set or hit) key of a non-empty set of used keys
LruOf(S) == use_order[CHOOSE i \in DOMAIN use_order :
                        /\ use_order[i] \in S
                        /\ \A j \in 1..(i - 1) : use_order[j] \notin S]

\* C10: a set of a new key that takes the number of non-expired entries
\* above max_entries evicts exactly one entry, the least recently used one.
C10_LruEviction ==
    [][(/\ IsSetStep
        /\ cache_op'.key \notin LiveKeys
        /\ Cardinality(LiveKeys) + 1 > max_entries
        /\ max_entries >= 1)
       => /\ KeysOf(entries') = (LiveKeys \cup {cache_op'.key}) \ {LruOf(LiveKeys)}
          /\ Len(entries') = max_entries]_vars

\* after a set the cache is full and a key set within the TTL is gone
C10_Witness ==
    /\ cache_op.op = "set"
    /\ Len(entries) = max_entries
    /\ \E k \in Keys : /\ k \notin KeysOf(entries)
                       /\ set_ts[k] # NoTime
                       /\ now - set_ts[k] <= ttl_seconds

\* C11: a get hit on k, the least recently used entry of a full cache, moves
\* k to the most recently used end: when the next call inserts a new key and
\* so evicts an entry, the evicted entry is another one (the one that was
\* second oldest) and k is still returned by a get.
C11_HitSurvivesEviction ==
    [][(/\ IsSetStep
        /\ cache_op.op = "get" /\ cache_op.lru_hit
        /\ cache_op'.key \notin KeysOf(PurgeExpired(entries, now))
        /\ Len(PurgeExpired(entries, now)) = max_entries)
       => /\ HasKey(entries', cache_op.key)
          /\ GetResult(entries', cache_op.key, now) = cache_op.result
          /\ KeysOf(entries') =
                (KeysOf(entries) \cup {cache_op'.key}) \ {entries[1].key}
          /\ entries[1].key # cache_op.key]_vars

\* the new key went in right after a hit on the oldest entry of a full
\* cache, and the key that was hit is still there
C11_Witness ==
    /\ cache_op.op = "set"
    /\ Len(entries) = max_entries
    /\ Len(use_order) > max_entries
    /\ use_order[Len(use_order)] = cache_op.key
    /\ use_order[Len(use_order) - 1] \in KeysOf(entries)
    /\ \E i \in 1..(Len(use_order) - 2) :
          /\ use_order[i] \notin KeysOf(entries)
          /\ now - set_ts[use_order[i]] <= ttl_seconds
          /\ set_ts[use_order[i]] > set_ts[use_order[Len(use_order) - 1]]

\* C12: after a get or a set returns the cache holds at most max_entries
\* entries, and none of them is older than the TTL at the time the call
\* read the clock.
C12_BoundedAndFresh ==
    [][(IsGetStep \/ IsSetStep) =>
          /\ Len(entries') <= max_entries
          /\ Cardinality(KeysOf(entries')) = Len(entries')
          /\ \A i \in DOMAIN entries' : entries'[i].ts + ttl_seconds >= now]_vars

\* a set has filled the cache while a key set earlier has expired and left
C12_Witness ==
    /\ cache_op.op = "set"
    /\ Len(entries) = max_entries
    /\ \E k \in Keys : /\ set_ts[k] # NoTime
                       /\ now - set_ts[k] > ttl_seconds
                       /\ k \notin KeysOf(entries)

----------------------------------------------------------------------------
(* Claims about the shared preview cache (SpecConc) *)

\* C13: whatever the interleaving of the get and set calls of the two
\* threads, no call raises and, when no call is in progress, the entry
\* collection holds at most max_entries entries.  (The claim also asks for
\* results equal to those of a serial order; the two conjuncts here are
\* necessary for it.)
C13_ConcurrentAccessIsSafe ==
    /\ \A t \in Threads : cc_raised[t] = "none"
    /\ (\A t \in Threads : cc_pc[t] = "idle") => Len(cc_entries) <= max_entries

----------------------------------------------------------------------------
(* Claims about the preview fingerprint (SpecFp) *)

\* equality of two JSON values, objects compared as key -> value mappings
RECURSIVE JsonEq(_, _)
JsonEq(a, b) ==
    IF IsODict(a) /\ IsODict(b)
    THEN /\ ItemKeys(a.v) = ItemKeys(b.v)
         /\ \A k \in ItemKeys(a.v) : JsonEq(ItemValue(a.v, k), ItemValue(b.v, k))
    ELSE IF IsList(a) /\ IsList(b)
    THEN /\ Len(a.v) = Len(b.v)
         /\ \A i \in DOMAIN a.v : JsonEq(a.v[i], b.v[i])
    ELSE a = b

\* the four inputs of a request are equal: the user, the set of (file id,
\* byte size), the flow document and the preview target
SameInputs(r1, r2) ==
    /\ r1.user_id = r2.user_id
    /\ {r1.db_files[i] : i \in DOMAIN r1.db_files} = {r2.db_files[i] : i \in DOMAIN r2.db_files}
    /\ JsonEq(r1.flow_data, r2.flow_data)
    /\ JsonEq(PreviewTargetPayload(r1.preview_target), PreviewTargetPayload(r2.preview_target))

\* C15: two requests get the same fingerprint exactly when their user, set
\* of (file id, byte size), flow document and preview target are equal,
\* whatever the order in which the files or the keys of the document are
\* enumerated.
C15_FingerprintIffSameInputs ==
    (fp_req # <<>> /\ fp_key[1] # NoKey /\ fp_key[2] # NoKey)
        => ((fp_key[1] = fp_key[2]) <=> SameInputs(fp_req[1], fp_req[2]))

\* the part of C15 about the keys of the document, for one order of the files
C15_KeyOrderDoesNotMatter ==
    (/\ fp_req # <<>> /\ fp_key[1] # NoKey /\ fp_key[2] # NoKey
     /\ fp_req[1].db_files = fp_req[2].db_files)
        => ((fp_key[1] = fp_key[2]) <=> SameInputs(fp_req[1], fp_req[2]))

----------------------------------------------------------------------------
(* Claims about the flow execution engine (SpecEngine) *)

\* the keys of the directly supplied input files
InitialKeys(fmap) == {table_key(f) : f \in SeqSet(fmap)}

\* C16: execute returns, besides the table map and last_written_key, the set
\* terminal_keys: the keys of the final table map that were neither consumed
\* as a source nor initial input keys.
C16_TerminalKeysReturned ==
    eng_result # NotReturned =>
        /\ Len(eng_result) = 3
        /\ eng_result[3] = {k \in TableKeys : eng_st.tm[k] # 0}
                              \ (eng_st.consumed \cup InitialKeys(eng_files))

\* the step runs a transform node in the given wiring mode to completion
IsNodeStep(mode) ==
    /\ eng_pc \in DOMAIN eng_nodes
    /\ eng_pc' = eng_pc + 1
    /\ eng_nodes[eng_pc].blockType \in TransformIds
    /\ ~eng_st'.raised
    /\ WiringMode(Normalize(eng_nodes[eng_pc]).sources,
                  Normalize(eng_nodes[eng_pc]).destinations) = mode

Sources == Normalize(eng_nodes[eng_pc]).sources
Destinations == Normalize(eng_nodes[eng_pc]).destinations

\* the validate calls of the step, in order
NewCalls == SubSeq(eng_st'.calls, Len(eng_st.calls) + 1, Len(eng_st'.calls))

\* the table the map holds under key k after the step
TableAfter(k) == eng_st'.heap[eng_st'.tm[k]]

\* the key a target resolves to: its virtual id, its file id, or the
\* default file when it names neither
TargetKey(target) == SourceKey(eng_files, target)

\* C17: 1:1 wiring: for every index i whose source passes validation, after
\* the node runs the table map holds transform(source i's table) under
\* destination i's key (unless a later pair writes that key again), for
\* every shape of destination the normalization can produce.
C17_PairsWriteEveryDestination ==
    [][IsNodeStep("pairs") =>
          \A i \in DOMAIN Destinations :
              (/\ NewCalls[i].valid
               /\ TargetKey(Destinations[i]) # NoKeyYet
               /\ \A j \in DOMAIN Destinations :
                     (j > i /\ NewCalls[j].valid)
                        => TargetKey(Destinations[j]) # TargetKey(Destinations[i]))
              => /\ eng_st'.tm[TargetKey(Destinations[i])] # 0
                 /\ TableAfter(TargetKey(Destinations[i]))
                       = Transformed(eng_nodes[eng_pc].blockType, NewCalls[i].input)]_vars

\* C17 for the destinations that carry a virtual id or a file id
C17_PairsWriteIdentifiedDestinations ==
    [][IsNodeStep("pairs") =>
          \A i \in DOMAIN Destinations :
              (/\ NewCalls[i].valid
               /\ StoreKey(Destinations[i]) # NoKeyYet
               /\ \A j \in DOMAIN Destinations :
                     (j > i /\ NewCalls[j].valid)
                        => StoreKey(Destinations[j]) # StoreKey(Destinations[i]))
              => /\ eng_st'.tm[StoreKey(Destinations[i])] # 0
                 /\ TableAfter(StoreKey(Destinations[i]))
                       = Transformed(eng_nodes[eng_pc].blockType, NewCalls[i].input)]_vars

\* the results of the calls that passed validation, in call order
RECURSIVE ValidResults(_, _)
ValidResults(bt, calls) ==
    IF calls = <<>> THEN <<>>
    ELSE (IF Head(calls).valid THEN <<Transformed(bt, Head(calls).input)>> ELSE <<>>)
         \o ValidResults(bt, Tail(calls))

RECURSIVE SumRows(_)
SumRows(tables) == IF tables = <<>> THEN 0 ELSE Len(Head(tables).rows) + SumRows(Tail(tables))

\* t is the row-wise concatenation of the tables, in order, over the union
\* of their columns, with a null where a table lacks a column
IsConcatOf(t, tables) ==
    /\ Len(t.rows) = SumRows(tables)
    /\ SeqSet(t.cols) = UNION {SeqSet(tables[i].cols) : i \in DOMAIN tables}
    /\ \A i \in DOMAIN t.rows :
          /\ DOMAIN t.rows[i] = SeqSet(t.cols)
          /\ \A c \in SeqSet(t.cols) :
                t.rows[i][c] = IF c \in DOMAIN AllRows(tables)[i] THEN AllRows(tables)[i][c]
                               ELSE Null

\* C18: N:1 append: every source is validated and executed on its own, and
\* when some source passes, the results of the sources that pass,
\* concatenated row-wise in source order over the union of their columns,
\* are written under every destination key.
C18_AppendConcatenatesInOrder ==
    [][IsNodeStep("append") =>
          /\ Len(NewCalls) = Len(Sources)
          /\ ValidResults(eng_nodes[eng_pc].blockType, NewCalls) # <<>> =>
                \A i \in DOMAIN Destinations :
                    StoreKey(Destinations[i]) # NoKeyYet =>
                        /\ eng_st'.tm[StoreKey(Destinations[i])] # 0
                        /\ IsConcatOf(TableAfter(StoreKey(Destinations[i])),
                                      ValidResults(eng_nodes[eng_pc].blockType, NewCalls))]_vars

\* the last node appended a one-column table and another one-column table
\* with a different column: three rows over two columns, with nulls
C18_Witness ==
    /\ eng_pc > 1
    /\ eng_pc - 1 \in DOMAIN eng_nodes
    /\ WiringMode(Normalize(eng_nodes[eng_pc - 1]).sources,
                  Normalize(eng_nodes[eng_pc - 1]).destinations) = "append"
    /\ eng_st.last # NoKeyYet
    /\ Len(eng_st.heap[eng_st.tm[eng_st.last]].rows) = 3
    /\ Len(eng_st.heap[eng_st.tm[eng_st.last]].cols) = 2
    /\ \E i \in 1..3 : eng_st.heap[eng_st.tm[eng_st.last]].rows[i]["A"] = Null

\* C19: 1:N broadcast: the transform is validated and executed once, and
\* every destination key receives its own copy of the result: equal
\* content, an object of its own, shared with no other key and with no
\* table that existed before.
C19_BroadcastCopies ==
    [][IsNodeStep("broadcast") =>
          /\ Len(NewCalls) = 1
          /\ NewCalls[1].valid =>
                \A i \in DOMAIN Destinations :
                    StoreKey(Destinations[i]) # NoKeyYet =>
                        /\ eng_st'.tm[StoreKey(Destinations[i])] # 0
                        /\ TableAfter(StoreKey(Destinations[i]))
                              = Transformed(eng_nodes[eng_pc].blockType, NewCalls[1].input)
                        /\ \A k \in TableKeys \ {StoreKey(Destinations[i])} :
                              eng_st'.tm[k] # eng_st'.tm[StoreKey(Destinations[i])]
                        /\ \A k \in TableKeys :
                              eng_st.tm[k] # eng_st'.tm[StoreKey(Destinations[i])]]_vars

\* the last node broadcast one result to two keys
C19_Witness ==
    /\ eng_pc > 1
    /\ eng_pc - 1 \in DOMAIN eng_nodes
    /\ WiringMode(Normalize(eng_nodes[eng_pc - 1]).sources,
                  Normalize(eng_nodes[eng_pc - 1]).destinations) = "broadcast"
    /\ eng_st.tm[virtual_key("v1")] # 0
    /\ eng_st.tm[virtual_key("v2")] # 0
    /\ eng_st.tm[virtual_key("v1")] # eng_st.tm[virtual_key("v2")]
    /\ eng_st.heap[eng_st.tm[virtual_key("v1")]] = eng_st.heap[eng_st.tm[virtual_key("v2")]]
    /\ eng_st.heap[eng_st.tm[virtual_key("v1")]].rows # <<>>

\* the file a source target without a virtual id is read from (0: none)
SourceFile(target) ==
    IF target.fileId # 0 THEN target.fileId ELSE DefaultFileId(eng_files)

\* the table under key k when source i of the node is loaded: what an
\* earlier pair of this node stored there, else what the map held before
TableAtLoad(k, i) ==
    LET writers == {j \in 1..(i - 1) :
                       /\ WiringMode(Sources, Destinations) = "pairs"
                       /\ NewCalls[j].valid
                       /\ StoreKey(Destinations[j]) = k}
        last == CHOOSE j \in writers : \A x \in writers : x <= j
    IN  IF writers # {} THEN Transformed(eng_nodes[eng_pc].blockType, NewCalls[last].input)
        ELSE IF eng_st.tm[k] # 0 THEN eng_st.heap[eng_st.tm[k]]
        ELSE EmptyTable

\* C22: a source target that carries a virtual id is read from the table
\* map only: the transform receives the table last written under
\* virtual:<id> in this execution, or an empty table, and no file is parsed
\* for it, even when the target also carries a file id.
C22_VirtualKeyNeverParsed ==
    [][(/\ eng_pc \in DOMAIN eng_nodes
        /\ eng_pc' = eng_pc + 1
        /\ eng_nodes[eng_pc].blockType \in TransformIds)
       => /\ \A i \in DOMAIN NewCalls :
                Sources[i].virtualId # "" =>
                    NewCalls[i].input = TableAtLoad(virtual_key(Sources[i].virtualId), i)
          /\ eng_st'.parsed \ eng_st.parsed
                \subseteq {SourceFile(Sources[i]) :
                              i \in {j \in DOMAIN Sources : Sources[j].virtualId = ""}}
                          \cup {eng_nodes[eng_pc].lookupTarget}]_vars

\* a node read the target {virtualId: v1, fileId: 2} before anything was
\* written under virtual:v1, with file 2 supplied: it got an empty table
\* and file 2 was not parsed
C22_Witness ==
    /\ eng_pc = 2
    /\ eng_nodes[1].sourceTargets = <<Both>>
    /\ eng_nodes[1].blockType \in TransformIds
    /\ 2 \in SeqSet(eng_files)
    /\ eng_st.calls # <<>>
    /\ eng_st.calls[1].input = EmptyTable
    /\ eng_st.parsed = {}

\* C21: when a transform raises during execute after passing validation,
\* the execution fails as a whole: the raising call is the last call made
\* (no later pair, source or node runs), no table map is returned, and the
\* only thing that follows is the caller's client-facing error.
C21_TransformFailureIsFatal ==
    [][/\ (~eng_st.raised /\ eng_st'.raised) =>
              /\ NewCalls # <<>>
              /\ NewCalls[Len(NewCalls)].valid
              /\ ExecuteRaises(eng_nodes[eng_pc].blockType, NewCalls[Len(NewCalls)].input)
       /\ eng_st.raised =>
              /\ eng_st' = eng_st
              /\ eng_result = NotReturned
              /\ eng_result' = Failed]_vars

\* the first of two nodes raised after a table had entered the table map:
\* the caller got the error, not the partial map, and the second node never ran
C21_Witness ==
    /\ eng_st.raised
    /\ eng_result = Failed
    /\ Len(eng_nodes) = 2
    /\ eng_pc = 2
    /\ \E k \in TableKeys : eng_st.tm[k] # 0

\* the enumerations of the same file map
SameFiles(fmap) == {m \in FileMaps : SeqSet(m) = SeqSet(fmap)}

\* C20: an execution on the same input files and the same document returns
\* the same keys, the same table under every key and the same
\* last_written_key, whatever the order in which the file map is
\* enumerated.
C20_ExecutionIsDeterministic ==
    eng_result # NotReturned =>
        \A m \in SameFiles(eng_files) : execute_flow(m, eng_nodes) = eng_result

\* C20 for one enumeration of the file map
C20_SameEnumerationSameResult ==
    eng_result # NotReturned => execute_flow(eng_files, eng_nodes) = eng_result

----------------------------------------------------------------------------
(* Claims about garbage collection (Spec) *)

\* the step deletes flow f / deletes file i explicitly / edits flow f
IsDeleteFlowStep(f) == flows[f] # NoFlow /\ flows'[f] = NoFlow
IsDeleteFileStep(i) == gc_op' = "delete_file" /\ files[i] # NoFile /\ files'[i] = NoFile
IsUpdateFlowStep(f) ==
    /\ gc_op' = "update_flow"
    /\ flows[f] # NoFlow
    /\ flows'[f].flow_data # flows[f].flow_data

\* the flows of user u whose extracted reference set holds file i
RefFlows(i, u) ==
    {g \in FlowIdSet : flows[g].user_id = u /\ i \in ExtractFileIds(flows[g].flow_data)}

Present(i) == files[i] # NoFile /\ i \in disk
PresentAfter(i) == files'[i] = files[i] /\ i \in disk'
GoneAfter(i) == files'[i] = NoFile /\ i \notin disk'

\* C1: a flow delete never deletes a file that another flow of the same user
\* references, whatever batch the file belongs to.
C1_FlowDeleteKeepsReferencedFiles ==
    [][\A f \in FlowIdSet : IsDeleteFlowStep(f) =>
          \A i \in GcFileIds :
              (Present(i) /\ RefFlows(i, flows[f].user_id) \ {f} # {})
                  => PresentAfter(i)]_vars

\* C2: when file X of a user is referenced by exactly two of the user's flows,
\* deleting one leaves X intact, and deleting the only flow that still
\* references X deletes X.
C2_GarbageCollectionScenario ==
    [][\A f \in FlowIdSet : IsDeleteFlowStep(f) =>
          \A x \in GcFileIds :
              (Present(x) /\ files[x].user_id = flows[f].user_id) =>
                  /\ (f \in RefFlows(x, flows[f].user_id)
                      /\ Cardinality(RefFlows(x, flows[f].user_id)) = 2)
                        => PresentAfter(x)
                  /\ RefFlows(x, flows[f].user_id) = {f} => GoneAfter(x)]_vars

\* the second half of C2 alone
C2_LastReferenceDeletes ==
    [][\A f \in FlowIdSet : IsDeleteFlowStep(f) =>
          \A x \in GcFileIds :
              (Present(x) /\ files[x].user_id = flows[f].user_id
               /\ RefFlows(x, flows[f].user_id) = {f}) => GoneAfter(x)]_vars

\* C6: after an explicit delete of file i no flow of the owner points at i
\* at any reference site, no flow is deleted, and the record and the bytes
\* of i are gone.
C6_FileDeleteStripsEveryReference ==
    [][\A i \in GcFileIds : IsDeleteFileStep(i) =>
          /\ \A g \in FlowIdSet :
                /\ (flows'[g] = NoFlow) = (flows[g] = NoFlow)
                /\ flows'[g].user_id = flows[g].user_id
                /\ flows[g].user_id = files[i].user_id
                      => i \notin DocumentedRefs(flows'[g].flow_data)
          /\ GoneAfter(i)]_vars

\* C7 as stated: a flow update that changes the document deletes a file
\* (record and bytes) exactly when its id is in the old reference set, not
\* in the new one, and in no other flow of the user; every other file keeps
\* its record and its bytes.
C7_UpdateDeletesExactlyOrphans ==
    [][\A f \in FlowIdSet : IsUpdateFlowStep(f) =>
          \A i \in GcFileIds : Present(i) =>
              IF /\ i \in ExtractFileIds(flows[f].flow_data)
                 /\ i \notin ExtractFileIds(flows'[f].flow_data)
                 /\ RefFlows(i, flows[f].user_id) \ {f} = {}
              THEN GoneAfter(i)
              ELSE PresentAfter(i)]_vars

\* C7 amended: the same, for the files that belong to the user who updates
\* the flow; a file of another user is never deleted by the update.
C7_UpdateDeletesOwnedOrphans ==
    [][\A f \in FlowIdSet : IsUpdateFlowStep(f) =>
          \A i \in GcFileIds : Present(i) =>
              IF /\ files[i].user_id = flows[f].user_id
                 /\ i \in ExtractFileIds(flows[f].flow_data)
                 /\ i \notin ExtractFileIds(flows'[f].flow_data)
                 /\ RefFlows(i, flows[f].user_id) \ {f} = {}
              THEN GoneAfter(i)
              ELSE PresentAfter(i)]_vars

\* an update removed one file and kept another that a flow still references
C7_Witness ==
    /\ gc_op = "update_flow"
    /\ gc_removed # {}
    /\ \E i \in GcFileIds, g \in FlowIdSet :
          /\ files[i] # NoFile
          /\ flows[g].user_id = files[i].user_id
          /\ i \in ExtractFileIds(flows[g].flow_data)

\* the batches and files a step removes
RemovedBatches == {b \in BatchIds : batches[b] # NoBatch /\ batches'[b] = NoBatch}
MembersGone(b) == \A i \in FilesInBatch(DB, b) : GoneAfter(i)

\* C25: the deleted_files and deleted_batches a flow delete returns are
\* exactly the files and batches whose records that call removed.
C25_FlowDeleteReportsWhatItRemoved ==
    [][\A f \in FlowIdSet : IsDeleteFlowStep(f) =>
          /\ DeleteFlowResponse(DB, flows[f].user_id, f).status = "ok"
          /\ DeleteFlowResponse(DB, flows[f].user_id, f).deleted_files = gc_removed'
          /\ DeleteFlowResponse(DB, flows[f].user_id, f).deleted_batches = RemovedBatches]_vars

\* C25 for the batches alone, when the call returns
C25_ReportsRemovedBatches ==
    [][\A f \in FlowIdSet :
          (IsDeleteFlowStep(f) /\ DeleteFlowResponse(DB, flows[f].user_id, f).status = "ok")
             => DeleteFlowResponse(DB, flows[f].user_id, f).deleted_batches = RemovedBatches]_vars

Touched(b, f) ==
    /\ batches[b] # NoBatch
    /\ batches[b].flow_id # f
    /\ \E i \in FilesInBatch(DB, b) : i \in FilesForFlow(flows[f])

\* C29: on a flow delete, a touched batch is deleted with all its member
\* files if and only if no member file is referenced by a remaining flow of
\* the user.
C29_TouchedBatchDeletedIffUnreferenced ==
    [][\A f \in FlowIdSet : IsDeleteFlowStep(f) =>
          \A b \in BatchIds : Touched(b, f) =>
              ((batches'[b] = NoBatch /\ MembersGone(b))
                 <=> (\A i \in FilesInBatch(DB, b) : RefFlows(i, flows[f].user_id) \ {f} = {}))]_vars

\* C29 for the touched batches that belong to the user who deletes the flow
C29_OwnTouchedBatchDeletedIffUnreferenced ==
    [][\A f \in FlowIdSet : IsDeleteFlowStep(f) =>
          \A b \in BatchIds : (Touched(b, f) /\ batches[b].user_id = flows[f].user_id) =>
              ((batches'[b] = NoBatch /\ MembersGone(b))
                 <=> (\A i \in FilesInBatch(DB, b) : RefFlows(i, flows[f].user_id) \ {f} = {}))]_vars

\* C30: the references are re-checked after the flow row is removed, so the
\* deleted flow keeps nothing alive: a file of the user that only the
\* deleted flow referenced is gone after the delete, and so is a touched
\* batch of the user whose member files only the deleted flow referenced.
C30_DeletedFlowKeepsNothingAlive ==
    [][\A f \in FlowIdSet : IsDeleteFlowStep(f) =>
          /\ \A i \in FilesForFlow(flows[f]) \cap GcFileIds :
                (files[i].user_id = flows[f].user_id
                 /\ RefFlows(i, flows[f].user_id) \ {f} = {}) => GoneAfter(i)
          /\ \A b \in BatchIds :
                (/\ Touched(b, f)
                 /\ batches[b].user_id = flows[f].user_id
                 /\ \A i \in FilesInBatch(DB, b) : RefFlows(i, flows[f].user_id) \ {f} = {})
                   => batches'[b] = NoBatch]_vars

\* a flow delete removed a file of no batch that the deleted flow was the
\* only one to reference
C30_Witness ==
    /\ gc_op = "delete_flow"
    /\ gc_removed # {}
    /\ next_id.batch = 1
    /\ \A g \in FlowIdSet : flows[g] = NoFlow \/ gc_removed \cap ExtractFileIds(flows[g].flow_data) = {}

----------------------------------------------------------------------------
(* Claims about the orphan sweep and concurrent deletes (SpecJob) *)

\* the files that were orphaned when the sweep run started: their id is in
\* the reference set of no flow of their owner
OrphanedAtStart ==
    {i \in GcFileIds :
        /\ sweep.db0.files[i] # NoFile
        /\ \A f \in FlowIdSet :
              sweep.db0.flows[f].user_id = sweep.db0.files[i].user_id
                 => i \notin ExtractFileIds(sweep.db0.flows[f].flow_data)}

\* C23: a sweep run deletes every orphaned file of every user and no
\* referenced file: whatever it removes or unlinks was orphaned when the run
\* started, and a run no request steps into ends without error with every
\* file that was orphaned at its start gone, record and bytes.  It is
\* idempotent: a further run with no request at work deletes nothing.
C23_SweepDeletesExactlyOrphans ==
    /\ sweep.removed \cup sweep.unlinked \subseteq OrphanedAtStart
    /\ (sweep.pc = "done" /\ req.pc = sweep.req0) =>
          /\ sweep.failed = {}
          /\ \A i \in OrphanedAtStart : files[i] = NoFile /\ i \notin disk
          /\ (sweep.run > 1 /\ req.pc \in {"idle", "done"})
                => sweep.removed \cup sweep.unlinked = {}

\* the second run is over and found nothing to do; the first had removed
\* file 1 and kept file 2, which a flow of its owner references
C23_Witness ==
    /\ sweep.pc = "done" /\ sweep.run = 2 /\ req.pc = "idle"
    /\ sweep.removed = {} /\ sweep.failed = {}
    /\ next_id.file = 3
    /\ files[1] = NoFile /\ 1 \notin disk
    /\ files[2] # NoFile /\ 2 \in disk
    /\ \E f \in FlowIdSet : flows[f].user_id = files[2].user_id
                              /\ 2 \in ExtractFileIds(flows[f].flow_data)

\* C24: when the sweep and a user's DELETE /files/{id} target the same
\* file, the request completes without a server error in every
\* interleaving (a 404 for a file that is already gone is let pass here).
C24_ConcurrentDeleteCompletes ==
    (req.pc = "done" /\ req.file \in sweep.found) => req.status # "error"

\* C24, the sweep's side: a finished run has removed every other orphaned
\* file it found, whatever the request did
C24_SweepCommitsTheOthers ==
    sweep.pc = "done" =>
        \A i \in sweep.found \ {req.file} : files[i] = NoFile /\ i \notin disk

\* a file has a record exactly when it has bytes
RecordAndBytesTogether == \A i \in GcFileIds : (files[i] # NoFile) <=> (i \in disk)

\* C26: once no unit of work is in progress, be it finished, failed or
\* cut short by a crash, every file has its record and its bytes, or neither.
C26_FailureLeavesRecordAndBytesTogether ==
    (sweep.pc \in {"idle", "done", "crashed"} /\ req.pc \in {"idle", "done", "crashed"})
        => RecordAndBytesTogether

\* C26 without a crash: the same, when every unit of work ran to its end
C26_FinishedWorkLeavesRecordAndBytesTogether ==
    (sweep.pc \in {"idle", "done"} /\ req.pc \in {"idle", "done"})
        => RecordAndBytesTogether

----------------------------------------------------------------------------
(* Claims about the zip archive (SpecZip) *)

\* safe(B) in the words of the claim: every character other than ASCII
\* letters, digits, underscore, hyphen and space becomes an underscore
Safe(B) ==
    [k \in DOMAIN B |->
        IF \/ Ord("a") <= Ord(B[k]) /\ Ord(B[k]) <= Ord("z")
           \/ Ord("A") <= Ord(B[k]) /\ Ord(B[k]) <= Ord("Z")
           \/ Ord("0") <= Ord(B[k]) /\ Ord(B[k]) <= Ord("9")
           \/ B[k] \in {"_", "-", " "}
        THEN B[k] ELSE "_"]

\* C27: create_zip_archive writes exactly one entry per payload file, named
\* file_name without an output batch and safe(B)/file_name with an output
\* batch named B.
C27_OneEntryPerPayloadFile ==
    zip_out.source # NotCalled =>
        /\ ~zip_out.source.raised
        /\ Len(zip_out.source.names) = Len(zip_in.files_payload)
        /\ \A k \in DOMAIN zip_in.files_payload :
              zip_out.source.names[k] =
                 IF zip_in.batch = NoOutputBatch THEN zip_in.files_payload[k]
                 ELSE Safe(zip_in.batch) \o <<"/">> \o zip_in.files_payload[k]

\* C27 without an output batch: one entry per payload file, named file_name
C27_FlatArchive ==
    (zip_out.source # NotCalled /\ zip_in.batch = NoOutputBatch) =>
        zip_out.source = [raised |-> FALSE, names |-> zip_in.files_payload]

\* C27 for the copy the tests run, with a non-empty batch name: the folder
\* is safe(B) with the spaces at its ends stripped
C27_TestCopyNamesEntries ==
    (zip_out.test # NotCalled /\ zip_in.batch # NoOutputBatch /\ zip_in.batch # <<>>) =>
        zip_out.test = [raised |-> FALSE,
                        names |-> [k \in DOMAIN zip_in.files_payload |->
                                      Strip(Safe(zip_in.batch)) \o <<"/">> \o zip_in.files_payload[k]]]

----------------------------------------------------------------------------
(* Claims about validation failures, the last written key, mismatched
   nodes, the single pass and the normalization (SpecEngine) *)

\* a step of a node that is wired in one of the three modes
IsWiredStep ==
    IsNodeStep("pairs") \/ IsNodeStep("append") \/ IsNodeStep("broadcast")

\* the indexes of the inputs of the step that passed validation
ValidInputs == {i \in DOMAIN NewCalls : NewCalls[i].valid}

\* the keys the step writes for the inputs that passed validation
WrittenForValid ==
    IF WiringMode(Sources, Destinations) = "pairs"
    THEN {StoreKey(Destinations[i]) : i \in ValidInputs}
    ELSE IF ValidInputs # {} THEN {StoreKey(Destinations[j]) : j \in DOMAIN Destinations}
    ELSE {}

\* the keys of the destinations of the inputs that failed validation
DestinationsOfInvalid ==
    ((IF WiringMode(Sources, Destinations) = "pairs"
      THEN {StoreKey(Destinations[i]) : i \in DOMAIN NewCalls \ ValidInputs}
      ELSE IF ValidInputs = {} THEN {StoreKey(Destinations[j]) : j \in DOMAIN Destinations}
      ELSE {})
     \ WrittenForValid) \ {NoKeyYet}

\* every input of the node is validated, and the last written key is the
\* one stored for the last input that passed, or is left alone
OtherInputsProcessed ==
    /\ Len(NewCalls) = (IF WiringMode(Sources, Destinations) = "broadcast" THEN 1
                        ELSE Len(Sources))
    /\ ValidInputs = {} => eng_st'.last = eng_st.last /\ eng_st'.stored = eng_st.stored
    /\ (ValidInputs # {} /\ WiringMode(Sources, Destinations) = "pairs") =>
           eng_st'.last = StoreKey(Destinations[CHOOSE i \in ValidInputs :
                                                    \A j \in ValidInputs : j <= i])

\* C33: an input that fails validation is skipped for that input only: the
\* node's other inputs are still processed, the last written key is not
\* changed by the input, and the destination key paired with it keeps the
\* table, or the absence, it had before (in append mode: when every source
\* fails, no destination key changes).
C33_InvalidInputLeavesDestinationAsItWas ==
    [][IsWiredStep =>
          /\ OtherInputsProcessed
          /\ \A k \in DestinationsOfInvalid : eng_st'.tm[k] = eng_st.tm[k]]_vars

\* C33 (amended): as above, except that a destination key that was absent
\* and is the key of a file a load of this step parsed holds that parsed
\* file afterwards; no transform result is written under it.
C33_InvalidInputWritesNoResult ==
    [][IsWiredStep =>
          /\ OtherInputsProcessed
          /\ \A k \in DestinationsOfInvalid :
                \/ eng_st'.tm[k] = eng_st.tm[k]
                \/ /\ eng_st.tm[k] = 0
                   /\ \E f \in eng_st'.parsed \ eng_st.parsed :
                         k = table_key(f) /\ TableAfter(k) = ParseFile(f)]_vars

\* a 1:1 node ran on two inputs: the first passed validation and was stored,
\* the second failed and its destination virtual:v2 is still absent
C33_Witness ==
    /\ eng_pc = 2
    /\ Len(eng_st.calls) = 2
    /\ eng_st.calls[1].valid
    /\ ~eng_st.calls[2].valid
    /\ Normalize(eng_nodes[1]).destinations = <<V1, V2>>
    /\ eng_st.tm[virtual_key("v1")] # 0
    /\ eng_st.tm[virtual_key("v2")] = 0
    /\ eng_st.last = virtual_key("v1")

\* C34: what execute_flow returns as last written key is the key of the
\* table most recently written into the table map by a node, and is None
\* only if no table was written; a destination for which nothing is
\* written does not change it.
C34_LastKeyIsLastWritten ==
    (eng_result # NotReturned /\ eng_result # Failed) => eng_result[2] = eng_st.stored

\* C34 (what holds): the last written key is the key of the last store
\* whenever the destination of that store carried an id
C34_LastKeyFollowsIdentifiedStores ==
    [][(eng_pc \in DOMAIN eng_nodes /\ eng_pc' = eng_pc + 1 /\ eng_st'.last # NoKeyYet)
          => eng_st'.last = eng_st'.stored]_vars

\* C35: a node whose counts fit none of the three wiring modes is a no-op:
\* the table map and the last written key are unchanged, no transform is
\* validated or executed, nothing is raised and the next node runs.
C35_MismatchedNodeIsNoOp ==
    [][(/\ eng_pc \in DOMAIN eng_nodes
        /\ eng_pc' = eng_pc + 1
        /\ eng_nodes[eng_pc].blockType \in TransformIds
        /\ WiringMode(Sources, Destinations) = "mismatch")
       => /\ eng_st'.tm = eng_st.tm
          /\ eng_st'.last = eng_st.last
          /\ NewCalls = <<>>
          /\ ~eng_st'.raised]_vars

\* C35 (what holds): a mismatched node without a lookup target is a no-op,
\* and a mismatched node never changes the last written key, calls no
\* transform and raises nothing
C35_MismatchedNodeRunsNoTransform ==
    [][(/\ eng_pc \in DOMAIN eng_nodes
        /\ eng_pc' = eng_pc + 1
        /\ eng_nodes[eng_pc].blockType \in TransformIds
        /\ WiringMode(Sources, Destinations) = "mismatch")
       => /\ eng_nodes[eng_pc].lookupTarget = 0 => eng_st'.tm = eng_st.tm
          /\ eng_st'.last = eng_st.last
          /\ NewCalls = <<>>
          /\ ~eng_st'.raised]_vars

\* the target input i of the step is loaded from
InputTarget(i) ==
    IF WiringMode(Sources, Destinations) = "broadcast" THEN Sources[1] ELSE Sources[i]

\* an earlier pair of the step stored a table under key k before input i
WrittenEarlier(k, i) ==
    \E j \in 1..(i - 1) :
        /\ WiringMode(Sources, Destinations) = "pairs"
        /\ NewCalls[j].valid
        /\ StoreKey(Destinations[j]) = k

\* what a load of target t sees as input i of the step: the table under its
\* key if one is there, else the parsed file of a file key, else nothing
Seen(t, i) ==
    LET k == TargetKey(t)
    IN  IF k # NoKeyYet /\ (WrittenEarlier(k, i) \/ eng_st.tm[k] # 0) THEN TableAtLoad(k, i)
        ELSE IF t.virtualId = "" /\ SourceFile(t) \in SeqSet(eng_files)
             THEN ParseFile(SourceFile(t))
        ELSE EmptyTable

\* C36: the nodes run once each, in document order, in a single pass, and
\* every read sees the table map as it is at that moment: the table an
\* earlier node, or an earlier pair of the same node, wrote under the key,
\* and the parsed file for a file key nothing has been written under.
C36_SinglePassReadsSeeEarlierWrites ==
    [][/\ eng_pc' \in {eng_pc, eng_pc + 1}
       /\ eng_pc' = eng_pc + 1 =>
             /\ SubSeq(eng_st'.calls, 1, Len(eng_st.calls)) = eng_st.calls
             /\ \A i \in DOMAIN NewCalls : NewCalls[i].input = Seen(InputTarget(i), i)]_vars

\* the second node read file:1 after the first node had stored a renamed
\* table under it: it was given the renamed table, not the parsed file
C36_Witness ==
    /\ eng_pc = 3
    /\ eng_nodes[1].blockType = "rename_columns"
    /\ Normalize(eng_nodes[1]).destinations = <<F1>>
    /\ Normalize(eng_nodes[2]).sources = <<F1>>
    /\ Len(eng_st.calls) = 2
    /\ eng_st.calls[1].input = ParseFile(1)
    /\ eng_st.calls[2].input = Transformed("rename_columns", ParseFile(1))
    /\ eng_st.calls[2].input # ParseFile(1)

\* the source list the normalization is said to produce
NormalSources(node) ==
    LET s == IF node.sourceTargets # <<>> THEN node.sourceTargets ELSE node.target
        d == IF node.destinationTargets # <<>> THEN node.destinationTargets
             ELSE node.destination
    IN  IF s = <<>> THEN d ELSE s

\* the destination list the normalization is said to produce
NormalDestinations(node) ==
    LET d == IF node.destinationTargets # <<>> THEN node.destinationTargets
             ELSE node.destination
    IN  IF d = <<>> THEN NormalSources(node) ELSE d

\* C37: the targets are normalized once per node, before the wiring mode
\* is decided: a legacy target or destination stands in for an empty list,
\* the destinations double as sources when there are no sources, the
\* sources double as destinations when there are no destinations, and a
\* node with neither is skipped; the node is wired by the resulting lists.
C37_NormalizationBeforeWiring ==
    [][(/\ eng_pc \in DOMAIN eng_nodes
        /\ eng_pc' = eng_pc + 1
        /\ eng_nodes[eng_pc].blockType \notin SkipTypes)
       => LET s == NormalSources(eng_nodes[eng_pc])
              d == NormalDestinations(eng_nodes[eng_pc])
          IN  /\ (s = <<>> /\ d = <<>>) =>
                    eng_st'.wired = <<>> /\ NewCalls = <<>> /\ eng_st'.tm = eng_st.tm
              /\ (s # <<>> \/ d # <<>>) =>
                    /\ eng_st'.wired = <<s, d>>
                    /\ (eng_nodes[eng_pc].blockType \in TransformIds /\ ~eng_st'.raised) =>
                          Len(NewCalls) = (CASE WiringMode(s, d) = "broadcast" -> 1
                                             [] WiringMode(s, d) = "mismatch" -> 0
                                             [] OTHER -> Len(s))]_vars

\* a node with only the legacy fields target = F1 and destination = V2 ran
\* as the pair (F1, V2)
C37_Witness ==
    /\ eng_pc = 2
    /\ eng_nodes[1].sourceTargets = <<>>
    /\ eng_nodes[1].destinationTargets = <<>>
    /\ eng_nodes[1].target = <<F1>>
    /\ eng_nodes[1].destination = <<V2>>
    /\ eng_nodes[1].blockType = "append_files"
    /\ eng_st.wired = <<(<<F1>>), (<<V2>>)>>
    /\ 1 \in SeqSet(eng_files)
    /\ eng_st.tm[virtual_key("v2")] # 0
    /\ eng_st.last = virtual_key("v2")

----------------------------------------------------------------------------
(* Claims about malformed documents (SpecRef) *)

\* node i of document fd is a dict whose data is a dict
WellFormedNode(fd, i) ==
    IsDict(fd.v["nodes"].v[i]) /\ IsDict(Get(fd.v["nodes"].v[i], "data", PyNone))

\* the data dict of node i of document fd
DataOf(fd, i) == fd.v["nodes"].v[i].v["data"]

\* the int entries of data.fileIds and the int fileId of data.target and
\* data.lookupTarget, where these have the expected type
IntsIn(data) ==
    LET l == Get(data, "fileIds", PyNone)
        t == Get(data, "target", PyNone)
        u == Get(data, "lookupTarget", PyNone)
    IN  (IF IsList(l) THEN {l.v[j].v : j \in {x \in DOMAIN l.v : IsInt(l.v[x])}} ELSE {})
        \cup (IF IsDict(t) /\ IsInt(Get(t, "fileId", PyNone)) THEN {t.v["fileId"].v} ELSE {})
        \cup (IF IsDict(u) /\ IsInt(Get(u, "fileId", PyNone)) THEN {u.v["fileId"].v} ELSE {})

\* the document has a nodes list
HasNodes(fd) == IsDict(fd) /\ IsList(Get(fd, "nodes", PyNone))

\* C38: extraction and removal never raise on a document, nodes
\* collection, node, node data, target or file-id entry of the wrong type
\* or missing: the malformed part is skipped (it contributes no id and is
\* returned as it was) and the well-formed parts are still processed.
C38_MalformedShapesAreSkipped ==
    /\ ref_pc # "raised"
    /\ (ref_pc = "extracted" /\ ~HasNodes(flow_data)) => file_ids = {}
    /\ (ref_pc = "extracted" /\ HasNodes(flow_data)) =>
           file_ids = UNION {IntsIn(DataOf(flow_data, i)) :
                               i \in {j \in DOMAIN flow_data.v["nodes"].v :
                                         WellFormedNode(flow_data, j)}}
    /\ (ref_pc = "removed" /\ ~HasNodes(flow_data)) => updated = flow_data /\ ~changed
    /\ (ref_pc = "removed" /\ HasNodes(flow_data)) =>
           /\ HasNodes(updated)
           /\ DOMAIN updated.v["nodes"].v = DOMAIN flow_data.v["nodes"].v
           /\ \A i \in DOMAIN flow_data.v["nodes"].v :
                 IF WellFormedNode(flow_data, i)
                 THEN /\ WellFormedNode(updated, i)
                      /\ IntsIn(DataOf(updated, i)) = IntsIn(DataOf(flow_data, i)) \ {file_id}
                 ELSE updated.v["nodes"].v[i] = flow_data.v["nodes"].v[i]

\* the remover was called on a document whose first node is not a dict and
\* whose second node lists the file: the first node came back as it was and
\* the id was removed from the second
C38_Witness ==
    /\ ref_pc = "removed"
    /\ HasNodes(flow_data)
    /\ Len(flow_data.v["nodes"].v) = 2
    /\ ~IsDict(flow_data.v["nodes"].v[1])
    /\ file_id \in IntsIn(DataOf(flow_data, 2))
    /\ changed
    /\ updated.v["nodes"].v[1] = flow_data.v["nodes"].v[1]
    /\ file_id \notin IntsIn(DataOf(updated, 2))

----------------------------------------------------------------------------
(* Claims about overwriting a cache entry (SpecOverwrite) *)

\* C39: a set on a key that is in the cache (not expired) replaces its
\* payload, resets its age to the time of the set and makes it the most
\* recently used entry, and evicts nothing: the other unexpired entries
\* are all still there, unchanged and in the same order, so the number of
\* unexpired entries is the same.
C39_OverwriteKeepsTheOthers ==
    [][(IsSetStep /\ cache_op'.key \in LiveKeys)
       => /\ entries' # <<>>
          /\ entries'[Len(entries')] =
                [key |-> cache_op'.key, ts |-> now', value |-> last_set'.value]
          /\ Len(entries') = Cardinality(LiveKeys)
          /\ KeysOf(entries') = LiveKeys
          /\ SubSeq(entries', 1, Len(entries') - 1) =
                SelectSeq(entries, LAMBDA e : e.key \in LiveKeys \ {cache_op'.key})]_vars

\* a full cache whose older entry was overwritten with another payload:
\* both keys are still there, the overwritten one last and with the age of
\* the set, the other one older
C39_Witness ==
    /\ cache_op.op = "set"
    /\ cache_op.replaced
    /\ Len(entries) = max_entries
    /\ entries[Len(entries)] = [key |-> last_set.key, ts |-> now, value |-> last_set.value]
    /\ entries[1].ts < now
    /\ set_ts[entries[1].key] > NoTime
    /\ use_order[Len(use_order)] = last_set.key

----------------------------------------------------------------------------
(* Claims about the sweep and a concurrent flow create (SpecJob) *)

\* a committed flow of the owner of file i references i
ReferencedNow(i) ==
    \E f \in FlowIdSet :
        /\ flows[f] # NoFlow
        /\ flows[f].user_id = files[i].user_id
        /\ i \in ExtractFileIds(flows[f].flow_data)

\* the sweep commits the deletions of the user at hand
IsSweepCommit == sweep.pc = "commit" /\ sweep'.pc = "user"

\* C40: the sweep never deletes a file that one of its owner's flows
\* references at the moment the deletion is committed, in every
\* interleaving of a run with a request that creates such a flow.
C40_SweepNeverDeletesReferencedFile ==
    [][IsSweepCommit =>
          \A i \in sweep.marked : files[i] # NoFile => ~ReferencedNow(i)]_vars

\* C40 when no request commits during the run: what the sweep removes is
\* referenced by no committed flow of its owner
C40_QuietSweepDeletesNoReferencedFile ==
    [][(IsSweepCommit /\ req.pc = sweep.req0) =>
          \A i \in sweep.marked : files[i] # NoFile => ~ReferencedNow(i)]_vars

----------------------------------------------------------------------------
(* Claims about storage failures during the delete routes (SpecFault) *)

\* the members of the batch the request deleted, as they were before it
MembersBefore == FilesInBatch(fault_op.before, fault_op.id)

\* storage.delete_file raised for file i when the request called it first
RaisedFor(i) == i \in fault_op.before.disk /\ fault_op.fault[i] # "ok"

Logged == {fault_op.log[k].file : k \in DOMAIN fault_op.log}
Unexpected == {k \in DOMAIN fault_op.log : fault_op.log[k].raised = "OSError"}

\* the files with no batch that the deleted flow listed, that belong to the
\* user and that no other flow of the user lists: the cleanup owes each a try
OwedATry ==
    {i \in ExtractFileIds(fault_op.before.flows[fault_op.id].flow_data) \cap GcFileIds :
        /\ fault_op.before.files[i].user_id = fault_op.user
        /\ fault_op.before.files[i].batch_id = 0
        /\ \A g \in FlowIdSet \ {fault_op.id} :
              fault_op.before.flows[g].user_id = fault_op.user
                 => i \notin ExtractFileIds(fault_op.before.flows[g].flow_data)}

\* C31: in the cleanup of individual files of a flow delete, an expected
\* failure for one file (its bytes are already gone: FileNotFoundError) is
\* skipped and the cleanup goes on with the remaining files; any other
\* exception ends the loop, no later file is touched, and the deletions not
\* yet committed are rolled back (the records are back; the flow row, which
\* was committed, stays deleted).
C31_ExpectedFailuresSkippedOthersAbort ==
    (fault_op.route = "delete_flow" /\ fault_op.status = "ok") =>
        /\ flows[fault_op.id] = NoFlow
        /\ fault_op.rolled_back <=> Unexpected # {}
        /\ Unexpected = {} =>
              /\ OwedATry \subseteq Logged
              /\ \A k \in DOMAIN fault_op.log :
                    LET i == fault_op.log[k].file
                    IN  IF fault_op.log[k].raised = "none"
                        THEN files[i] = NoFile /\ i \notin disk
                        ELSE files[i] # NoFile /\ i \notin disk
        /\ Unexpected # {} =>
              /\ Unexpected = {Len(fault_op.log)}
              /\ \A k \in DOMAIN fault_op.log : files[fault_op.log[k].file] # NoFile
              /\ \A i \in OwedATry \ Logged :
                    files[i] = fault_op.before.files[i] /\ (i \in disk <=> i \in fault_op.before.disk)
              /\ \A b \in BatchIds :
                    (fault_op.before.batches[b] # NoBatch
                        /\ fault_op.before.batches[b].flow_id # fault_op.id)
                       => batches[b] = fault_op.before.batches[b]

\* the flow listed files 1 and 2: the unlink of file 1 was denied, the
\* session was rolled back and file 2 was never tried: both files have
\* their record and their bytes, the flow row is gone
C31_Witness ==
    /\ fault_op.route = "delete_flow" /\ fault_op.status = "ok"
    /\ fault_op.rolled_back
    /\ fault_op.log = <<[file |-> 1, raised |-> "OSError"]>>
    /\ OwedATry = {1, 2}
    /\ fault_op.fault[2] = "ok"
    /\ files[1] # NoFile /\ files[2] # NoFile
    /\ disk = {1, 2}
    /\ flows[fault_op.id] = NoFlow

\* the flow listed files 1 and 2: the unlink of file 1 raised
\* FileNotFoundError and was skipped, file 2 was deleted after it
C31_WitnessSkipped ==
    /\ fault_op.route = "delete_flow" /\ fault_op.status = "ok"
    /\ ~fault_op.rolled_back
    /\ Len(fault_op.log) = 2
    /\ fault_op.log[1] = [file |-> 1, raised |-> "FileNotFoundError"]
    /\ fault_op.log[2] = [file |-> 2, raised |-> "none"]
    /\ files[1] # NoFile /\ files[2] = NoFile
    /\ disk = {}
    /\ flows[fault_op.id] = NoFlow

\* the flow listed files 1 and 2: file 1 was deleted, the unlink of file 2
\* was denied, the session was rolled back and both records are there
C31_WitnessRolledBack ==
    /\ fault_op.route = "delete_flow" /\ fault_op.status = "ok"
    /\ fault_op.rolled_back
    /\ Len(fault_op.log) = 2
    /\ fault_op.log[1] = [file |-> 1, raised |-> "none"]
    /\ fault_op.log[2] = [file |-> 2, raised |-> "OSError"]
    /\ files[1] # NoFile /\ files[2] # NoFile
    /\ disk = {2}
    /\ flows[fault_op.id] = NoFlow

====
